---- MODULE Spec2Model ----
(***************************************************************************)
(* paropal: the dual reconciliation scheduler.                             *)
(*                                                                         *)
(* Two scheduler loops (runDailyCleanup, runDailyProvision) share one      *)
(* cancellation signal and one wall clock.  Each loop waits for its        *)
(* trigger and then runs its reconciler to completion.  The reconcilers    *)
(* talk to the cloud provider through the vultr client.                    *)
(*                                                                         *)
(* Time is an integer number of seconds (UTC).  Durations are in seconds.  *)
(* Strings the code inspects (labels, statuses, ids, error texts) are      *)
(* sequences of ASCII codes, so that prefix tests, comparison, trimming,   *)
(* lower-casing and substring search are computed as the code does.        *)
(***************************************************************************)
EXTENDS Integers, Sequences, FiniteSets, TLC

VARIABLES
    now,        \* the wall clock, read by time.Now()
    cancelled,  \* backgroundCtx is done (stopBackground was called)
    inv,        \* the provider's instances
    nCreated,   \* how many instances the provider has created so far
    cpc,        \* runDailyCleanup: position of the goroutine
    cNext,      \* runDailyCleanup: next
    cl,         \* reconcileDestroyAllInstances: its locals
    cstat,      \* the client calls of the current (or last) cleanup run
    ppc,        \* runDailyProvision: position of the goroutine
    pNext,      \* runDailyProvision: next
    pl,         \* reconcileEnsureParopalInstance: its locals
    pstat,      \* the client calls of the current (or last) provision run
    srv,        \* the HTTP boundary: POST /shutdown and its goroutine
    calc        \* the window calculator and the backoff generator, applied alone

vars == <<now, cancelled, inv, nCreated, cpc, cNext, cl, cstat, ppc, pNext, pl, pstat,
          srv, calc>>

-----------------------------------------------------------------------------
(* Strings as sequences of ASCII codes.                                    *)

str_empty == <<>>
str_paropal_dash == <<112,97,114,111,112,97,108,45>>         \* "paropal-"
str_destroy == <<100,101,115,116,114,111,121>>               \* "destroy"
str_delete == <<100,101,108,101,116,101>>                    \* "delete"
str_terminate == <<116,101,114,109,105,110,97,116,101>>      \* "terminate"
str_remov == <<114,101,109,111,118>>                         \* "remov"
str_already_attached == <<97,108,114,101,97,100,121,32,97,116,116,97,99,104,101,100>>
str_already_in_use == <<97,108,114,101,97,100,121,32,105,110,32,117,115,101>>

str_Bearer == <<66,101,97,114,101,114>>                            \* "Bearer"

\* strings.ToLower, on ASCII
ToLower(s) == [i \in 1..Len(s) |-> IF s[i] >= 65 /\ s[i] <= 90 THEN s[i] + 32 ELSE s[i]]

IsSpace(c) == c \in {9, 10, 11, 12, 13, 32}

\* strings.TrimSpace
TrimSpace(s) ==
    LET idx == {i \in 1..Len(s) : ~IsSpace(s[i])}
    IN  IF idx = {} THEN <<>>
        ELSE LET lo == CHOOSE i \in idx : \A j \in idx : i <= j
                 hi == CHOOSE i \in idx : \A j \in idx : i >= j
             IN  SubSeq(s, lo, hi)

\* strings.Fields: the maximal runs of non-space characters
RECURSIVE FieldsFrom(_, _, _, _)
FieldsFrom(s, i, cur, acc) ==
    IF i > Len(s)
    THEN IF cur = <<>> THEN acc ELSE Append(acc, cur)
    ELSE IF IsSpace(s[i])
    THEN FieldsFrom(s, i + 1, <<>>, IF cur = <<>> THEN acc ELSE Append(acc, cur))
    ELSE FieldsFrom(s, i + 1, Append(cur, s[i]), acc)

Fields(s) == FieldsFrom(s, 1, <<>>, <<>>)

\* strings.EqualFold, on ASCII
EqualFold(a, b) == ToLower(a) = ToLower(b)

\* subtle.ConstantTimeCompare
ConstantTimeCompare(x, y) == IF x = y THEN 1 ELSE 0

\* strings.Contains
Contains(s, sub) ==
    \E i \in 0..(Len(s) - Len(sub)) : SubSeq(s, i + 1, i + Len(sub)) = sub

\* strings.HasPrefix
HasPrefix(s, prefix) ==
    Len(s) >= Len(prefix) /\ SubSeq(s, 1, Len(prefix)) = prefix

\* Go's string comparison a > b: bytewise lexicographic
StrGreater(a, b) ==
    \/ \E i \in 1..Len(b) :
          /\ i <= Len(a)
          /\ SubSeq(a, 1, i - 1) = SubSeq(b, 1, i - 1)
          /\ a[i] > b[i]
    \/ Len(a) > Len(b) /\ SubSeq(a, 1, Len(b)) = b

\* two decimal digits, as fmt's "%02d" of a value below 100
TwoDigits(n) == <<48 + (n \div 10), 48 + (n % 10)>>

-----------------------------------------------------------------------------
(* Compiled-in constants (config.go).                                      *)

labelPrefix == str_paropal_dash
cleanupHourKST == 0
cleanupMinuteKST == 10
cleanupWindowStartHourKST == 0
cleanupWindowStartMinuteKST == 0
cleanupWindowEndHourKST == 7
cleanupWindowEndMinuteKST == 0
createHourKST == 7
createMinuteKST == 10
defaultCleanupSettleDelay == 20
defaultCleanupBackoffMin == 15
defaultCleanupBackoffMax == 300
defaultCleanupPassDeleteInterval == 2
defaultProvisionBackoffMin == 15
defaultProvisionBackoffMax == 300

\* Asia/Seoul and Asia/Tokyo are both UTC+9 without daylight saving time.
KSTOffset == 32400
SecondsPerDay == 86400

-----------------------------------------------------------------------------
(* Time Window Calculator.                                                 *)

\* now.In(loc): the local calendar day and the second of that day
LocalDay(t) == (t + KSTOffset) \div SecondsPerDay
LocalSecondOfDay(t) == (t + KSTOffset) % SecondsPerDay

\* time.Date(year, month, day, hour, minute, 0, 0, loc) for local day `day`
DateKST(day, hour, minute) ==
    day * SecondsPerDay + hour * 3600 + minute * 60 - KSTOffset

\* time.Time.Before
Before(t, u) == t < u

\* time.Now().After(scheduled) in place of !now.Before(scheduled)
nextCleanupTimeKST_notStrict(t) ==
    LET scheduled == DateKST(LocalDay(t), cleanupHourKST, cleanupMinuteKST)
    IN  IF t > scheduled THEN scheduled + 24 * 3600 ELSE scheduled

nextCleanupTimeKST(t) ==
    LET scheduled == DateKST(LocalDay(t), cleanupHourKST, cleanupMinuteKST)
    IN  IF ~Before(t, scheduled) THEN scheduled + 24 * 3600 ELSE scheduled

\* a window that opens at the scheduled minute instead of the window start
cleanupWindowBounds_lateStart(t) ==
    [start |-> DateKST(LocalDay(t), cleanupHourKST, cleanupMinuteKST),
     end   |-> DateKST(LocalDay(t), cleanupWindowEndHourKST, cleanupWindowEndMinuteKST)]

cleanupWindowBounds(t) ==
    [start |-> DateKST(LocalDay(t), cleanupWindowStartHourKST, cleanupWindowStartMinuteKST),
     end   |-> DateKST(LocalDay(t), cleanupWindowEndHourKST, cleanupWindowEndMinuteKST)]

\* a window that includes its end instant
isWithinCleanupWindow_inclusive(t) ==
    LET w == cleanupWindowBounds(t)
    IN  IF Before(t, w.start) THEN FALSE ELSE ~Before(w.end, t)

isWithinCleanupWindow(t) ==
    LET w == cleanupWindowBounds(t)
    IN  IF Before(t, w.start) THEN FALSE ELSE Before(t, w.end)

\* no catch-up inside the window
firstCleanupRunTimeKST_noCatchUp(t) == nextCleanupTimeKST(t)

firstCleanupRunTimeKST(t) ==
    IF ~isWithinCleanupWindow(t) THEN nextCleanupTimeKST(t)
    ELSE LET scheduledToday == DateKST(LocalDay(t), cleanupHourKST, cleanupMinuteKST)
         IN  IF ~Before(t, scheduledToday) THEN t ELSE scheduledToday

\* a provision trigger at the cleanup minute
nextProvisionTimeKST_atCleanupTime(t) ==
    LET scheduled == DateKST(LocalDay(t), cleanupHourKST, cleanupMinuteKST)
    IN  IF ~Before(t, scheduled) THEN scheduled + 24 * 3600 ELSE scheduled

nextProvisionTimeKST(t) ==
    LET scheduled == DateKST(LocalDay(t), createHourKST, createMinuteKST)
    IN  IF ~Before(t, scheduled) THEN scheduled + 24 * 3600 ELSE scheduled

\* no catch-up after the scheduled minute
firstProvisionRunTimeKST_noCatchUp(t) == nextProvisionTimeKST(t)

firstProvisionRunTimeKST(t) ==
    LET scheduledToday == DateKST(LocalDay(t), createHourKST, createMinuteKST)
    IN  IF Before(t, scheduledToday) THEN scheduledToday ELSE t

\* time.Until(t), with the clock at `clock`
Until(t, clock) == t - clock

-----------------------------------------------------------------------------
(* Backoff Generator.                                                      *)

\* doubling without the ceiling
nextBackoff_unclamped(current, max) == current * 2

nextBackoff(current, max) ==
    LET next == current * 2
    IN  IF next > max THEN max ELSE next

-----------------------------------------------------------------------------
(* Bounds of the model.                                                    *)

MaxInitInstances == 2   \* instances in the account when the daemon starts
MaxCreated == 2         \* instances the provider creates before it refuses
MaxTime == 79850        \* the clock stops here (day 1, 07:10:50 KST)

-----------------------------------------------------------------------------
(* The provider's inventory.                                               *)

NoInstance == [ID |-> <<>>, Status |-> <<>>, MainIP |-> <<>>, Label |-> <<>>]

\* a managed instance without an address yet: "paropal-1", "active"
instUsable ==
    [ID |-> <<117>>, Status |-> <<97,99,116,105,118,101>>, MainIP |-> <<>>,
     Label |-> <<112,97,114,111,112,97,108,45,49>>]
\* a managed instance that is being torn down: "paropal-2", "Destroying"
instDying ==
    [ID |-> <<100>>, Status |-> <<68,101,115,116,114,111,121,105,110,103>>,
     MainIP |-> <<49,48,46,48,46,48,46,50>>,
     Label |-> <<112,97,114,111,112,97,108,45,50>>]
\* an instance of somebody else: "web", "active"
instOther ==
    [ID |-> <<111>>, Status |-> <<97,99,116,105,118,101>>,
     MainIP |-> <<49,48,46,48,46,48,46,51>>, Label |-> <<119,101,98>>]
\* an instance the provider lists without an id: "ghost", "pending"
instNoID ==
    [ID |-> <<>>, Status |-> <<112,101,110,100,105,110,103>>, MainIP |-> <<>>,
     Label |-> <<103,104,111,115,116>>]

Catalog == {instUsable, instDying, instOther, instNoID}

\* the id the provider gives to the k-th instance it creates: "n1", "n2", ...
NewID(k) == <<110, 48 + k>>

CreatedInstance(k, label) ==
    [ID |-> NewID(k), Status |-> <<112,101,110,100,105,110,103>>,
     MainIP |-> <<48,46,48,46,48,46,48>>, Label |-> label]

\* error texts of the provider
errAlreadyAttached ==   \* "Block storage is already attached"
    <<66,108,111,99,107,32,115,116,111,114,97,103,101,32,105,115,32,
      97,108,114,101,97,100,121,32,97,116,116,97,99,104,101,100>>
errAlreadyInUse ==      \* "Volume Already In Use"
    <<86,111,108,117,109,101,32,65,108,114,101,97,100,121,32,73,110,32,85,115,101>>
errInternal ==          \* "internal error"
    <<105,110,116,101,114,110,97,108,32,101,114,114,111,114>>
errCanceled ==          \* "context canceled"
    <<99,111,110,116,101,120,116,32,99,97,110,99,101,108,101,100>>
errEmptyID ==           \* "instance id cannot be empty"
    <<105,110,115,116,97,110,99,101,32,105,100,32,99,97,110,110,111,116,32,
      98,101,32,101,109,112,116,121>>

\* the instances of a set in ascending order of id (ids are distinct)
RECURSIVE SortByID(_)
SortByID(S) ==
    IF S = {} THEN <<>>
    ELSE LET m == CHOOSE x \in S : \A y \in S : y = x \/ ~StrGreater(x.ID, y.ID)
         IN  <<m>> \o SortByID(S \ {m})

Reverse(s) == [i \in 1..Len(s) |-> s[Len(s) + 1 - i]]

\* the orders in which the provider lists a set of instances
ListOrders(S) == {SortByID(S), Reverse(SortByID(S))}

\* what the list endpoint may show: instances it created may still be missing
ListViews(all, created) ==
    {all \ hidden : hidden \in SUBSET {i \in all : i.ID \in created}}

-----------------------------------------------------------------------------
(* The vultr client.  Every call puts ctx into its request (doRequest), so *)
(* a call made after cancellation fails in the client and sends nothing.   *)
(* An outcome says whether a request reached the provider (sent), the      *)
(* error text the call returns (<<>> for nil) and what the provider did.   *)

\* doRequest with a cancelled context: http.Client.Do returns ctx's error
doRequestCancelled == [sent |-> FALSE, err |-> errCanceled]

\* listAllInstances: all pages or an error, never a part of the inventory
listAllInstances(ctxDone, all, created) ==
    IF ctxDone
    THEN {[sent |-> FALSE, err |-> errCanceled, instances |-> <<>>, lag |-> FALSE]}
    ELSE {[sent |-> TRUE, err |-> errInternal, instances |-> <<>>, lag |-> FALSE]}
         \cup UNION {{[sent |-> TRUE, err |-> <<>>, instances |-> order,
                       lag |-> (view # all)] : order \in ListOrders(view)} :
                     view \in ListViews(all, created)}

\* deleteInstance with a request that does not carry ctx
deleteInstance_noCtx(ctxDone, instanceID) ==
    IF TrimSpace(instanceID) = <<>>
    THEN {[sent |-> FALSE, err |-> errEmptyID, removed |-> FALSE]}
    ELSE {[sent |-> TRUE, err |-> errInternal, removed |-> FALSE],
          [sent |-> TRUE, err |-> <<>>, removed |-> TRUE],
          [sent |-> TRUE, err |-> <<>>, removed |-> FALSE]}

\* deleteInstance: an accepted delete removes the instance at once or later
deleteInstance(ctxDone, instanceID) ==
    IF TrimSpace(instanceID) = <<>>
    THEN {[sent |-> FALSE, err |-> errEmptyID, removed |-> FALSE]}
    ELSE IF ctxDone
    THEN {[sent |-> FALSE, err |-> errCanceled, removed |-> FALSE]}
    ELSE {[sent |-> TRUE, err |-> errInternal, removed |-> FALSE],
          [sent |-> TRUE, err |-> <<>>, removed |-> TRUE],
          [sent |-> TRUE, err |-> <<>>, removed |-> FALSE]}

\* createInstance with a request that does not carry ctx
createInstance_noCtx(ctxDone, k, canCreate) ==
    {[sent |-> TRUE, err |-> errInternal, made |-> FALSE, id |-> <<>>]}
    \cup IF ~canCreate THEN {}
         ELSE {[sent |-> TRUE,
                err |-> IF TrimSpace(raw) = <<>> THEN errEmptyID ELSE <<>>,
                made |-> TRUE, id |-> TrimSpace(raw)] :
               raw \in {NewID(k), <<>>, <<32>>}}

\* a client that takes a response without an instance id for a success
createInstance_blankOK(ctxDone, k, canCreate) ==
    IF ctxDone
    THEN {[sent |-> FALSE, err |-> errCanceled, made |-> FALSE, id |-> <<>>]}
    ELSE {[sent |-> TRUE, err |-> errInternal, made |-> FALSE, id |-> <<>>]}
         \cup IF ~canCreate THEN {}
              ELSE {[sent |-> TRUE, err |-> <<>>,
                     made |-> TRUE, id |-> TrimSpace(raw)] :
                    raw \in {NewID(k), <<>>, <<32>>}}

\* createInstance: the provider refuses, or creates its k-th instance and
\* answers with its id, with no id or with a blank id
createInstance(ctxDone, k, canCreate) ==
    IF ctxDone
    THEN {[sent |-> FALSE, err |-> errCanceled, made |-> FALSE, id |-> <<>>]}
    ELSE {[sent |-> TRUE, err |-> errInternal, made |-> FALSE, id |-> <<>>]}
         \cup IF ~canCreate THEN {}
              ELSE {[sent |-> TRUE,
                     err |-> IF TrimSpace(raw) = <<>> THEN errEmptyID ELSE <<>>,
                     made |-> TRUE, id |-> TrimSpace(raw)] :
                    raw \in {NewID(k), <<>>, <<32>>}}

provisionBlockStorageID ==   \* "52cb7c3a-42fd-47e1-b120-6e8cf6b2ddd1"
    <<53,50,99,98,55,99,51,97,45,52,50,102,100,45,52,55,101,49,45,
      98,49,50,48,45,54,101,56,99,102,54,98,50,100,100,100,49>>

attachBlockStorage(ctxDone, blockStorageID, instanceID) ==
    IF TrimSpace(blockStorageID) = <<>> \/ TrimSpace(instanceID) = <<>>
    THEN {[sent |-> FALSE, err |-> errEmptyID]}
    ELSE IF ctxDone
    THEN {doRequestCancelled}
    ELSE {[sent |-> TRUE, err |-> e] :
            e \in {<<>>, errAlreadyAttached, errAlreadyInUse, errInternal}}

\* the index of the first c in s, or 0
IndexByte(s, c) ==
    IF \E i \in 1..Len(s) : s[i] = c
    THEN CHOOSE i \in 1..Len(s) : s[i] = c /\ \A j \in 1..(i - 1) : s[j] # c
    ELSE 0

\* url.Values.Get on a raw query: the value of the first key=value pair,
\* pairs separated by "&", whose key is the given one (no escapes occur)
RECURSIVE QueryGet(_, _)
QueryGet(query, key) ==
    IF query = <<>> THEN <<>>
    ELSE LET amp == IndexByte(query, 38)
             pair == IF amp = 0 THEN query ELSE SubSeq(query, 1, amp - 1)
             rest == IF amp = 0 THEN <<>> ELSE SubSeq(query, amp + 1, Len(query))
             eq == IndexByte(pair, 61)
             k == IF eq = 0 THEN pair ELSE SubSeq(pair, 1, eq - 1)
             v == IF eq = 0 THEN <<>> ELSE SubSeq(pair, eq + 1, Len(pair))
         IN  IF k = key THEN v ELSE QueryGet(rest, key)

str_cursor == <<99,117,114,115,111,114>>   \* "cursor"
errParseLink == <<112,97,114,115,101,32,112,97,103,105,110,97,116,105,111,110,32,108,105,110,107>>   \* "parse pagination link"

\* extractCursor: url.Parse rejects a control character and a first path
\* segment that starts with a colon; the fragment is cut off, the query is
\* what follows the first "?"
extractCursor(nextLink) ==
    LET link == TrimSpace(nextLink)
        hash == IndexByte(link, 35)
        noFrag == IF hash = 0 THEN link ELSE SubSeq(link, 1, hash - 1)
        qm == IndexByte(noFrag, 63)
        query == IF qm = 0 THEN <<>> ELSE SubSeq(noFrag, qm + 1, Len(noFrag))
    IN  IF link = <<>> THEN [err |-> <<>>, cursor |-> <<>>]
        ELSE IF (\E i \in 1..Len(link) : link[i] < 32 \/ link[i] = 127) \/ link[1] = 58
        THEN [err |-> errParseLink, cursor |-> <<>>]
        ELSE [err |-> <<>>, cursor |-> QueryGet(query, str_cursor)]

\* listAllInstances against a provider that answers a cursor with a page
\* (or fails): the loop from the given cursor on, `instances` so far.
\* fetch[cursor] is [err, Instances, Next].
RECURSIVE listPagesFrom(_, _, _)
listPagesFrom(fetch, cursor, instances) ==
    LET response == fetch[cursor]
        next == extractCursor(response.Next)
    IN  IF response.err # <<>>
        THEN [err |-> response.err, instances |-> <<>>]
        ELSE IF next.err # <<>>
        THEN [err |-> next.err, instances |-> <<>>]
        ELSE IF next.cursor = <<>>
        THEN [err |-> <<>>, instances |-> instances \o response.Instances]
        ELSE listPagesFrom(fetch, next.cursor, instances \o response.Instances)

\* firstInstanceWithLabelPrefix, on a successful listing: the loop over
\* instances[i..], with best so far (found = FALSE is a nil best)
RECURSIVE bestFrom(_, _, _, _)
bestFrom(instances, prefix, i, best) ==
    IF i > Len(instances) THEN best
    ELSE LET instance == instances[i]
         IN  IF ~HasPrefix(instance.Label, prefix)
             THEN bestFrom(instances, prefix, i + 1, best)
             ELSE IF ~best.found
             THEN bestFrom(instances, prefix, i + 1, [found |-> TRUE, inst |-> instance])
             ELSE IF best.inst.MainIP = <<>> /\ instance.MainIP # <<>>
             THEN bestFrom(instances, prefix, i + 1, [found |-> TRUE, inst |-> instance])
             ELSE IF best.inst.MainIP # <<>> /\ instance.MainIP = <<>>
             THEN bestFrom(instances, prefix, i + 1, best)
             ELSE IF StrGreater(instance.Label, best.inst.Label)
             THEN bestFrom(instances, prefix, i + 1, [found |-> TRUE, inst |-> instance])
             ELSE bestFrom(instances, prefix, i + 1, best)

\* a selection that takes the first listed instance with the prefix
firstInstanceWithLabelPrefix_firstMatch(instances, prefix) ==
    LET matches == {i \in 1..Len(instances) : HasPrefix(instances[i].Label, prefix)}
    IN  IF matches = {}
        THEN [found |-> FALSE, inst |-> NoInstance]
        ELSE [found |-> TRUE,
              inst |-> instances[CHOOSE i \in matches : \A j \in matches : i <= j]]

firstInstanceWithLabelPrefix(instances, prefix) ==
    bestFrom(instances, prefix, 1, [found |-> FALSE, inst |-> NoInstance])

\* an error test that recognises nothing
isBlockAlreadyAttachedError_never(err) == FALSE

\* an error test that does not know "already in use"
isBlockAlreadyAttachedError_attachedOnly(err) ==
    IF err = <<>> THEN FALSE
    ELSE Contains(ToLower(err), str_already_attached)

isBlockAlreadyAttachedError(err) ==
    IF err = <<>> THEN FALSE
    ELSE LET msg == ToLower(err)
         IN  Contains(msg, str_already_attached) \/ Contains(msg, str_already_in_use)

\* a status test that knows "destroy" only
isTerminatingInstanceStatus_destroyOnly(status) ==
    LET s == ToLower(TrimSpace(status))
    IN  IF s = <<>> THEN FALSE
        ELSE Contains(s, str_destroy)

isTerminatingInstanceStatus(status) ==
    LET s == ToLower(TrimSpace(status))
    IN  IF s = <<>> THEN FALSE
        ELSE \/ Contains(s, str_destroy)
             \/ Contains(s, str_delete)
             \/ Contains(s, str_terminate)
             \/ Contains(s, str_remov)

\* newInstanceLabel: labelPrefix + now.In(loc).Format("01-02_15-04-05");
\* the model's local day d is the (d+1)-th of January
newInstanceLabel(t) ==
    LET sec == LocalSecondOfDay(t)
    IN  labelPrefix \o TwoDigits(1) \o <<45>> \o TwoDigits(LocalDay(t) + 1) \o <<95>>
        \o TwoDigits(sec \div 3600) \o <<45>> \o TwoDigits((sec % 3600) \div 60)
        \o <<45>> \o TwoDigits(sec % 60)

-----------------------------------------------------------------------------
(* State shared by the goroutines.                                         *)

KST(day, hour, minute, second) == DateKST(day, hour, minute) + second

\* the instants at which the daemon may be started
StartTimes == {KST(1, 6, 59, 30), KST(1, 7, 10, 5)}

\* instants the clock may jump to, besides the reconcilers' pending timers
TimePoints == {KST(1, 0, 10, 0), KST(1, 6, 59, 50), KST(1, 7, 0, 0)}

clIdle ==
    [cutoff |-> 0, backoff |-> 0, instances |-> <<>>, deleteFailures |-> 0,
     d |-> 0, after |-> "none", deadline |-> 0,
     listed |-> <<>>, attempted |-> <<>>, lastDelete |-> -1,
     lastDeleteFailed |-> FALSE]

cstatIdle ==
    [result |-> "none", afterCancel |-> FALSE, n0 |-> 0, remaining |-> 0,
     ideal |-> TRUE, lastList |-> -1, active |-> 0,
     lastStart |-> -1, prevStart |-> -1,
     listCalls |-> 0, listSent |-> 0, deleteCalls |-> 0, deleteSent |-> 0]

emptyRunState == [instanceID |-> <<>>, label |-> <<>>]

plIdle ==
    [backoff |-> 0, state |-> emptyRunState, instance |-> NoInstance,
     createdNow |-> FALSE, deadline |-> 0, retries |-> 0,
     selected |-> [found |-> FALSE, inst |-> NoInstance]]

pstatIdle ==
    [result |-> "none", afterCancel |-> FALSE, active |-> 0, runs |-> 0,
     lastCreate |-> -1,
     listCalls |-> 0, listSent |-> 0, listFailed |-> FALSE,
     managedListed |-> FALSE, usableListed |-> FALSE,
     createCalls |-> 0, createSent |-> 0, createOK |-> 0,
     attachCalls |-> 0, attachSent |-> 0, attachFail |-> 0, lastAttach |-> <<>>,
     lastAttachErr |-> <<>>]

\* the listener serves; no request to POST /shutdown has been answered
srvIdle == [status |-> 0, header |-> <<>>, requests |-> 0, g |-> <<>>, closing |-> FALSE]

\* the calculators are not applied
calcIdle ==
    [op |-> "none", t |-> 0, out |-> 0, within |-> FALSE,
     pages |-> <<>>, res |-> [err |-> <<>>, instances |-> <<>>],
     start |-> 0, current |-> 0, max |-> 0, n |-> 0,
     parts |-> <<>>, expected |-> <<>>,
     instances |-> <<>>, sel |-> [found |-> FALSE, inst |-> NoInstance]]

Init ==
    /\ now \in StartTimes
    /\ cancelled = FALSE
    /\ inv \in {S \in SUBSET Catalog : Cardinality(S) <= MaxInitInstances}
    /\ nCreated = 0
    /\ cpc = "start" /\ cNext = 0 /\ cl = clIdle /\ cstat = cstatIdle
    /\ ppc = "start" /\ pNext = 0 /\ pl = plIdle /\ pstat = pstatIdle
    /\ srv = srvIdle
    /\ calc = calcIdle

\* a timer that fires as soon as it is set
TimerFired_atOnce(deadline, t) == TRUE

\* a timer set for `deadline` has fired when the clock is read at t
TimerFired(deadline, t) == t >= deadline

\* the ids of the instances the provider created
CreatedIDs == {NewID(k) : k \in 1..nCreated}

cleanupVars == <<cpc, cNext, cl, cstat>>
provisionVars == <<ppc, pNext, pl, pstat>>

\* time passes: the clock moves to a later instant
Tick ==
    /\ \E t \in TimePoints \cup {cl.deadline, pl.deadline, cl.cutoff} :
          /\ t > now
          /\ t <= MaxTime
          /\ now' = t
    /\ UNCHANGED <<srv, calc, cancelled, inv, nCreated, cleanupVars, provisionVars>>

\* stopBackground(): handleShutdown's goroutine, or main after the listener ends
stopBackground ==
    /\ ~cancelled
    /\ cancelled' = TRUE
    /\ UNCHANGED <<srv, calc, now, inv, nCreated, cleanupVars, provisionVars>>

-----------------------------------------------------------------------------
(* Cleanup: runDailyCleanup and reconcileDestroyAllInstances.              *)

\* runDailyCleanup leaving its loop when the reconciler returned at the cutoff
cleanupReturn_stopsAtCutoff(result, stat) ==
    /\ cpc' = IF result = "cutoff" THEN "stopped" ELSE "wait"
    /\ cNext' = nextCleanupTimeKST(now)
    /\ cl' = clIdle
    /\ cstat' = [stat EXCEPT !.result = result, !.remaining = Cardinality(inv),
                             !.active = @ - 1]

\* a loop that takes the instant of the return for its next trigger
cleanupReturn_retriggersAtOnce(result, stat) ==
    /\ cpc' = "wait"
    /\ cNext' = now
    /\ cl' = clIdle
    /\ cstat' = [stat EXCEPT !.result = result, !.remaining = Cardinality(inv),
                             !.active = @ - 1]

\* reconcileDestroyAllInstances returns; runDailyCleanup recomputes next
cleanupReturn(result, stat) ==
    /\ cpc' = "wait"
    /\ cNext' = nextCleanupTimeKST(now)
    /\ cl' = clIdle
    /\ cstat' = [stat EXCEPT !.result = result, !.remaining = Cardinality(inv),
                             !.active = @ - 1]

runDailyCleanupStart ==
    /\ cpc = "start"
    /\ cNext' = firstCleanupRunTimeKST(now)
    /\ cpc' = "wait"
    /\ UNCHANGED <<srv, calc, now, cancelled, inv, nCreated, cl, cstat, provisionVars>>

\* select: case <-ctx.Done()
runDailyCleanupStopped ==
    /\ cpc = "wait"
    /\ cancelled
    /\ cpc' = "stopped"
    /\ UNCHANGED <<srv, calc, now, cancelled, inv, nCreated, cNext, cl, cstat, provisionVars>>

\* a trigger that waits for the provision run to return
runDailyCleanupTimer_serialized ==
    /\ cpc = "wait"
    /\ ppc \notin {"top", "create", "attach", "sleepEnter", "sleeping"}
    /\ TimerFired(cNext, now)
    /\ IF ~isWithinCleanupWindow(now)
       THEN /\ cNext' = nextCleanupTimeKST(now)
            /\ UNCHANGED <<cpc, cl, cstat>>
       ELSE /\ cpc' = "top"
            /\ cl' = [clIdle EXCEPT !.cutoff = cleanupWindowBounds(now).end,
                                    !.backoff = defaultCleanupBackoffMin]
            /\ cstat' = [cstatIdle EXCEPT !.result = "running",
                                          !.afterCancel = cancelled,
                                          !.n0 = Cardinality(inv),
                                          !.active = cstat.active + 1,
                                          !.lastStart = now,
                                          !.prevStart = cstat.lastStart]
            /\ UNCHANGED cNext
    /\ UNCHANGED <<srv, calc, now, cancelled, inv, nCreated, provisionVars>>

\* select: case <-timer.C
runDailyCleanupTimer ==
    /\ cpc = "wait"
    /\ TimerFired(cNext, now)
    /\ IF ~isWithinCleanupWindow(now)
       THEN /\ cNext' = nextCleanupTimeKST(now)
            /\ UNCHANGED <<cpc, cl, cstat>>
       ELSE /\ cpc' = "top"
            /\ cl' = [clIdle EXCEPT !.cutoff = cleanupWindowBounds(now).end,
                                    !.backoff = defaultCleanupBackoffMin]
            /\ cstat' = [cstatIdle EXCEPT !.result = "running",
                                          !.afterCancel = cancelled,
                                          !.n0 = Cardinality(inv),
                                          !.active = cstat.active + 1,
                                          !.lastStart = now,
                                          !.prevStart = cstat.lastStart]
            /\ UNCHANGED cNext
    /\ UNCHANGED <<srv, calc, now, cancelled, inv, nCreated, provisionVars>>

\* the retry loop without its cutoff check
cutoffReachedAtLoopTop_never(t, cutoff) == FALSE

\* !time.Now().Before(cutoff), at the top of the retry loop
cutoffReachedAtLoopTop(t, cutoff) == ~Before(t, cutoff)

\* time.Now().After(cutoff) in place of !time.Now().Before(cutoff)
cutoffReachedInPass_after(t, cutoff) == t > cutoff

\* !time.Now().Before(cutoff), before each delete of a pass
cutoffReachedInPass(t, cutoff) == ~Before(t, cutoff)

\* len(instances) <= 1 in place of len(instances) == 0
listIsEmpty_offByOne(instances) == Len(instances) <= 1

\* len(instances) == 0
listIsEmpty(instances) == Len(instances) = 0

\* only managed instances are deleted
hasInstanceID_managedOnly(instance) ==
    instance.ID # <<>> /\ HasPrefix(instance.Label, labelPrefix)

\* instance.ID != "": the only test an instance of the pass has to meet
hasInstanceID(instance) == instance.ID # <<>>

\* the top of the retry loop, down to the result of the list call
reconcileLoopTop ==
    /\ cpc = "top"
    /\ IF cancelled
       THEN cleanupReturn("cancelled", cstat) /\ UNCHANGED inv
       ELSE IF cutoffReachedAtLoopTop(now, cl.cutoff)
       THEN cleanupReturn("cutoff", cstat) /\ UNCHANGED inv
       ELSE \E o \in listAllInstances(cancelled, inv, CreatedIDs) :
              LET stat == [cstat EXCEPT
                             !.listCalls = @ + 1,
                             !.listSent = @ + (IF o.sent THEN 1 ELSE 0),
                             !.lastList = IF o.err # <<>> THEN -1
                                          ELSE Len(o.instances),
                             !.ideal = @ /\ o.err = <<>> /\ ~o.lag]
              IN  /\ UNCHANGED inv
                  /\ IF o.err # <<>>
                     THEN /\ cpc' = "sleepEnter"
                          /\ cl' = [cl EXCEPT !.d = cl.backoff, !.after = "backoff"]
                          /\ cstat' = stat
                          /\ UNCHANGED cNext
                     ELSE IF listIsEmpty(o.instances)
                     THEN cleanupReturn("complete", stat)
                     ELSE /\ cpc' = "pass"
                          /\ cl' = [cl EXCEPT !.instances = o.instances,
                                              !.deleteFailures = 0,
                                              !.listed = o.instances,
                                              !.attempted = <<>>]
                          /\ cstat' = stat
                          /\ UNCHANGED cNext
    /\ UNCHANGED <<srv, calc, now, cancelled, nCreated, provisionVars>>

\* a delete pass that a failed delete call ends, the instances left unvisited
reconcileDeletePass_abortsOnError ==
    /\ cpc = "pass"
    /\ IF cl.instances = <<>>
       THEN /\ cpc' = "sleepEnter"
            /\ cl' = IF cl.deleteFailures > 0
                     THEN [cl EXCEPT !.d = cl.backoff, !.after = "backoff",
                                     !.listed = <<>>, !.attempted = <<>>,
                                     !.lastDelete = -1,
                                     !.lastDeleteFailed = FALSE]
                     ELSE [cl EXCEPT !.d = defaultCleanupSettleDelay,
                                     !.after = "settle",
                                     !.listed = <<>>, !.attempted = <<>>,
                                     !.lastDelete = -1,
                                     !.lastDeleteFailed = FALSE]
            /\ UNCHANGED <<inv, cNext, cstat>>
       ELSE LET instance == Head(cl.instances)
                rest == Tail(cl.instances)
            IN  IF cutoffReachedInPass(now, cl.cutoff)
                THEN cleanupReturn("cutoff", cstat) /\ UNCHANGED inv
                ELSE IF ~hasInstanceID(instance)
                THEN /\ cl' = [cl EXCEPT !.instances = rest, !.deleteFailures = @ + 1]
                     /\ cstat' = [cstat EXCEPT !.ideal = FALSE]
                     /\ UNCHANGED <<inv, cpc, cNext>>
                ELSE \E o \in deleteInstance(cancelled, instance.ID) :
                       /\ cstat' = [cstat EXCEPT
                                      !.deleteCalls = @ + 1,
                                      !.deleteSent = @ + (IF o.sent THEN 1 ELSE 0),
                                      !.ideal = @ /\ o.err = <<>> /\ o.removed]
                       /\ inv' = IF o.removed
                                 THEN {i \in inv : i.ID # instance.ID}
                                 ELSE inv
                       /\ IF o.err # <<>>
                          THEN /\ cl' = [cl EXCEPT !.instances = <<>>,
                                                   !.deleteFailures = @ + 1,
                                                   !.attempted = Append(@, instance.ID),
                                                   !.lastDelete = now,
                                                   !.lastDeleteFailed = TRUE]
                               /\ UNCHANGED cpc
                          ELSE /\ cl' = [cl EXCEPT
                                           !.instances = rest,
                                           !.attempted = Append(@, instance.ID),
                                           !.lastDelete = now,
                                           !.lastDeleteFailed = FALSE,
                                           !.d = defaultCleanupPassDeleteInterval,
                                           !.after = "pace"]
                               /\ cpc' = "sleepEnter"
                       /\ UNCHANGED cNext
    /\ UNCHANGED <<srv, calc, now, cancelled, nCreated, provisionVars>>

\* one iteration of the delete pass, or the end of the pass
reconcileDeletePass ==
    /\ cpc = "pass"
    /\ IF cl.instances = <<>>
       THEN /\ cpc' = "sleepEnter"
            /\ cl' = IF cl.deleteFailures > 0
                     THEN [cl EXCEPT !.d = cl.backoff, !.after = "backoff",
                                     !.listed = <<>>, !.attempted = <<>>,
                                     !.lastDelete = -1,
                                     !.lastDeleteFailed = FALSE]
                     ELSE [cl EXCEPT !.d = defaultCleanupSettleDelay,
                                     !.after = "settle",
                                     !.listed = <<>>, !.attempted = <<>>,
                                     !.lastDelete = -1,
                                     !.lastDeleteFailed = FALSE]
            /\ UNCHANGED <<inv, cNext, cstat>>
       ELSE LET instance == Head(cl.instances)
                rest == Tail(cl.instances)
            IN  IF cutoffReachedInPass(now, cl.cutoff)
                THEN cleanupReturn("cutoff", cstat) /\ UNCHANGED inv
                ELSE IF ~hasInstanceID(instance)
                THEN /\ cl' = [cl EXCEPT !.instances = rest, !.deleteFailures = @ + 1]
                     /\ cstat' = [cstat EXCEPT !.ideal = FALSE]
                     /\ UNCHANGED <<inv, cpc, cNext>>
                ELSE \E o \in deleteInstance(cancelled, instance.ID) :
                       /\ cstat' = [cstat EXCEPT
                                      !.deleteCalls = @ + 1,
                                      !.deleteSent = @ + (IF o.sent THEN 1 ELSE 0),
                                      !.ideal = @ /\ o.err = <<>> /\ o.removed]
                       /\ inv' = IF o.removed
                                 THEN {i \in inv : i.ID # instance.ID}
                                 ELSE inv
                       /\ IF o.err # <<>>
                          THEN /\ cl' = [cl EXCEPT !.instances = rest,
                                                   !.deleteFailures = @ + 1,
                                                   !.attempted = Append(@, instance.ID),
                                                   !.lastDelete = now,
                                                   !.lastDeleteFailed = TRUE]
                               /\ UNCHANGED cpc
                          ELSE /\ cl' = [cl EXCEPT
                                           !.instances = rest,
                                           !.attempted = Append(@, instance.ID),
                                           !.lastDelete = now,
                                           !.lastDeleteFailed = FALSE,
                                           !.d = defaultCleanupPassDeleteInterval,
                                           !.after = "pace"]
                               /\ cpc' = "sleepEnter"
                       /\ UNCHANGED cNext
    /\ UNCHANGED <<srv, calc, now, cancelled, nCreated, provisionVars>>

\* sleepWithContextUntil, up to the timer (the cutoff is never the zero time:
\* runDailyCleanup passes the end of the window)
sleepWithContextUntilEnter ==
    /\ cpc = "sleepEnter"
    /\ LET remaining == Until(cl.cutoff, now)
       IN  IF remaining <= 0
           THEN cleanupReturn("cutoff", cstat)
           ELSE /\ cl' = [cl EXCEPT !.deadline =
                            now + (IF cl.d > remaining THEN remaining ELSE cl.d)]
                /\ cpc' = "sleeping"
                /\ UNCHANGED <<cNext, cstat>>
    /\ UNCHANGED <<srv, calc, now, cancelled, inv, nCreated, provisionVars>>

\* sleepWithContextUntil, select: case <-ctx.Done()
sleepWithContextUntilDone ==
    /\ cpc = "sleeping"
    /\ cancelled
    /\ cleanupReturn("cancelled", cstat)
    /\ UNCHANGED <<srv, calc, now, cancelled, inv, nCreated, provisionVars>>

\* sleepWithContextUntil with its timer stopped before the select
sleepWithContextUntilTimer_stopped ==
    /\ cpc = "sleeping"
    /\ FALSE
    /\ UNCHANGED vars

\* a settle sleep after which the run reports completion without listing
sleepWithContextUntilTimer_noRelist ==
    /\ cpc = "sleeping"
    /\ TimerFired(cl.deadline, now)
    /\ IF ~Before(now, cl.cutoff)
       THEN cleanupReturn("cutoff", cstat)
       ELSE IF cl.after = "settle"
       THEN cleanupReturn("complete", cstat)
       ELSE /\ cpc' = IF cl.after = "pace" THEN "pass" ELSE "top"
            /\ cl' = [cl EXCEPT
                        !.backoff = IF cl.after = "backoff"
                                    THEN nextBackoff(cl.backoff, defaultCleanupBackoffMax)
                                    ELSE @,
                        !.d = 0, !.after = "none", !.deadline = 0]
            /\ UNCHANGED <<cNext, cstat>>
    /\ UNCHANGED <<srv, calc, now, cancelled, inv, nCreated, provisionVars>>

\* a settle sleep after which the retry delay is left as it was
sleepWithContextUntilTimer_keepsBackoff ==
    /\ cpc = "sleeping"
    /\ TimerFired(cl.deadline, now)
    /\ IF ~Before(now, cl.cutoff)
       THEN cleanupReturn("cutoff", cstat)
       ELSE /\ cpc' = IF cl.after = "pace" THEN "pass" ELSE "top"
            /\ cl' = [cl EXCEPT
                        !.backoff = IF cl.after = "backoff"
                                    THEN nextBackoff(cl.backoff, defaultCleanupBackoffMax)
                                    ELSE @,
                        !.d = 0, !.after = "none", !.deadline = 0]
            /\ UNCHANGED <<cNext, cstat>>
    /\ UNCHANGED <<srv, calc, now, cancelled, inv, nCreated, provisionVars>>

\* sleepWithContextUntil, select: case <-timer.C, and what the loop does next
sleepWithContextUntilTimer ==
    /\ cpc = "sleeping"
    /\ TimerFired(cl.deadline, now)
    /\ IF ~Before(now, cl.cutoff)
       THEN cleanupReturn("cutoff", cstat)
       ELSE /\ cpc' = IF cl.after = "pace" THEN "pass" ELSE "top"
            /\ cl' = [cl EXCEPT
                        !.backoff = IF cl.after = "backoff"
                                    THEN nextBackoff(cl.backoff, defaultCleanupBackoffMax)
                                    ELSE IF cl.after = "settle"
                                    THEN defaultCleanupBackoffMin
                                    ELSE @,
                        !.d = 0, !.after = "none", !.deadline = 0]
            /\ UNCHANGED <<cNext, cstat>>
    /\ UNCHANGED <<srv, calc, now, cancelled, inv, nCreated, provisionVars>>

-----------------------------------------------------------------------------
(* Provision: runDailyProvision and reconcileEnsureParopalInstance.        *)

\* reconcileEnsureParopalInstance returns; runDailyProvision recomputes next
provisionReturn(result, stat) ==
    /\ ppc' = "wait"
    /\ pNext' = nextProvisionTimeKST(now)
    /\ pl' = plIdle
    /\ pstat' = [stat EXCEPT !.result = result, !.active = @ - 1]

runDailyProvisionStart ==
    /\ ppc = "start"
    /\ pNext' = firstProvisionRunTimeKST(now)
    /\ ppc' = "wait"
    /\ UNCHANGED <<srv, calc, now, cancelled, inv, nCreated, pl, pstat, cleanupVars>>

\* select: case <-ctx.Done()
runDailyProvisionStopped ==
    /\ ppc = "wait"
    /\ cancelled
    /\ ppc' = "stopped"
    /\ UNCHANGED <<srv, calc, now, cancelled, inv, nCreated, pNext, pl, pstat, cleanupVars>>

\* an invocation whose retry delay starts at zero
runDailyProvisionTimer_zeroBackoff ==
    /\ ppc = "wait"
    /\ TimerFired(pNext, now)
    /\ ppc' = "top"
    /\ pl' = plIdle
    /\ pstat' = [pstatIdle EXCEPT !.result = "running",
                                  !.afterCancel = cancelled,
                                  !.active = pstat.active + 1,
                                  !.runs = pstat.runs + 1]
    /\ UNCHANGED <<srv, calc, now, cancelled, inv, nCreated, pNext, cleanupVars>>

\* select: case <-timer.C
runDailyProvisionTimer ==
    /\ ppc = "wait"
    /\ TimerFired(pNext, now)
    /\ ppc' = "top"
    /\ pl' = [plIdle EXCEPT !.backoff = defaultProvisionBackoffMin]
    /\ pstat' = [pstatIdle EXCEPT !.result = "running",
                                  !.afterCancel = cancelled,
                                  !.active = pstat.active + 1,
                                  !.runs = pstat.runs + 1]
    /\ UNCHANGED <<srv, calc, now, cancelled, inv, nCreated, pNext, cleanupVars>>

\* the run-state is never consulted
hasCreatedInstance_never(state) == FALSE

\* state != nil && strings.TrimSpace(state.instanceID) != ""
hasCreatedInstance(state) == TrimSpace(state.instanceID) # <<>>

\* the created instance is not recorded
recordCreated_dropped(state, instanceID, label) == state

\* state.instanceID = instanceID; state.label = label
recordCreated(state, instanceID, label) ==
    [state EXCEPT !.instanceID = instanceID, !.label = label]

\* the retry attaches to the label instead of the id
retryAttachTarget_label(state) == state.label

\* the instance the retry of a populated run-state attaches to
retryAttachTarget(state) == state.instanceID

\* an already-attached error accepted whoever created the instance
attachErrorAccepted_anyAttempt(err, createdNow) ==
    isBlockAlreadyAttachedError(err)

\* isBlockAlreadyAttachedError(attachErr) && !createdNow
attachErrorAccepted(err, createdNow) ==
    isBlockAlreadyAttachedError(err) /\ ~createdNow

\* the attempt failed: the error is logged and sleepWithContext follows
provisionFailed(stat) ==
    /\ ppc' = "sleepEnter"
    /\ pstat' = stat
    /\ UNCHANGED pNext

\* the top of the retry loop and ensureParopalInstanceAndBlock down to the
\* result of its first client call
reconcileEnsureTop ==
    /\ ppc = "top"
    /\ IF cancelled
       THEN provisionReturn("cancelled", pstat)
       ELSE IF hasCreatedInstance(pl.state)
       THEN \E o \in attachBlockStorage(cancelled, provisionBlockStorageID,
                                        retryAttachTarget(pl.state)) :
              LET stat == [pstat EXCEPT
                             !.attachCalls = @ + 1,
                             !.attachSent = @ + (IF o.sent THEN 1 ELSE 0),
                             !.attachFail = @ + (IF o.err # <<>> THEN 1 ELSE 0),
                             !.lastAttach = retryAttachTarget(pl.state),
                             !.lastAttachErr = o.err]
              IN  IF o.err # <<>> /\ ~isBlockAlreadyAttachedError(o.err)
                  THEN provisionFailed(stat) /\ UNCHANGED pl
                  ELSE provisionReturn("success", stat)
       ELSE \E o \in listAllInstances(cancelled, inv, CreatedIDs) :
              LET r == firstInstanceWithLabelPrefix(o.instances, labelPrefix)
                  ignore == r.found /\ isTerminatingInstanceStatus(r.inst.Status)
                  notFound == ~r.found \/ ignore
                  stat == [pstat EXCEPT
                             !.listCalls = @ + 1,
                             !.listSent = @ + (IF o.sent THEN 1 ELSE 0),
                             !.listFailed = @ \/ o.err # <<>>,
                             !.managedListed = @ \/
                                \E i \in 1..Len(o.instances) :
                                   HasPrefix(o.instances[i].Label, labelPrefix),
                             !.usableListed =
                                \E i \in 1..Len(o.instances) :
                                   /\ HasPrefix(o.instances[i].Label, labelPrefix)
                                   /\ ~isTerminatingInstanceStatus(o.instances[i].Status)]
              IN  IF o.err # <<>>
                  THEN provisionFailed(stat) /\ UNCHANGED pl
                  ELSE /\ ppc' = IF notFound THEN "create" ELSE "attach"
                       /\ pl' = [pl EXCEPT
                                   !.instance = IF notFound THEN NoInstance ELSE r.inst,
                                   !.createdNow = FALSE,
                                   !.selected = r]
                       /\ pstat' = stat
                       /\ UNCHANGED pNext
    /\ UNCHANGED <<srv, calc, now, cancelled, inv, nCreated, cleanupVars>>

\* errors.Is(err, errInstanceNotFound): render the cloud-config (the embedded
\* templates always render) and create the instance
ensureCreate ==
    /\ ppc = "create"
    /\ LET label == newInstanceLabel(now)
       IN  \E o \in createInstance(cancelled, nCreated + 1, nCreated < MaxCreated) :
             LET stat == [pstat EXCEPT
                            !.createCalls = @ + 1,
                            !.lastCreate = now,
                            !.createSent = @ + (IF o.sent THEN 1 ELSE 0),
                            !.createOK = @ + (IF o.err = <<>> THEN 1 ELSE 0)]
             IN  /\ inv' = IF o.made
                           THEN inv \cup {CreatedInstance(nCreated + 1, label)}
                           ELSE inv
                 /\ nCreated' = IF o.made THEN nCreated + 1 ELSE nCreated
                 /\ IF o.err # <<>>
                    THEN provisionFailed(stat) /\ UNCHANGED pl
                    ELSE /\ ppc' = "attach"
                         /\ pl' = [pl EXCEPT
                                     !.state = recordCreated(pl.state, o.id, label),
                                     !.instance = [NoInstance EXCEPT !.ID = o.id,
                                                                     !.Label = label],
                                     !.createdNow = TRUE]
                         /\ pstat' = stat
                         /\ UNCHANGED pNext
    /\ cstat' = IF cpc \in {"top", "pass", "sleepEnter", "sleeping"} /\ inv' # inv
                THEN [cstat EXCEPT !.ideal = FALSE]
                ELSE cstat
    /\ UNCHANGED <<srv, calc, now, cancelled, cpc, cNext, cl>>

\* a call that returns after a create without attaching
ensureAttach_createOnly ==
    /\ ppc = "attach"
    /\ IF pl.createdNow
       THEN provisionReturn("success", pstat)
       ELSE \E o \in attachBlockStorage(cancelled, provisionBlockStorageID, pl.instance.ID) :
              LET stat == [pstat EXCEPT
                             !.attachCalls = @ + 1,
                             !.attachSent = @ + (IF o.sent THEN 1 ELSE 0),
                             !.attachFail = @ + (IF o.err # <<>> THEN 1 ELSE 0),
                             !.lastAttach = pl.instance.ID,
                             !.lastAttachErr = o.err]
              IN  IF o.err # <<>> /\ ~attachErrorAccepted(o.err, pl.createdNow)
                  THEN provisionFailed(stat) /\ UNCHANGED pl
                  ELSE provisionReturn("success", stat)
    /\ UNCHANGED <<srv, calc, now, cancelled, inv, nCreated, cleanupVars>>

\* the attach of the resolved instance (the match or the one just created)
ensureAttach ==
    /\ ppc = "attach"
    /\ \E o \in attachBlockStorage(cancelled, provisionBlockStorageID, pl.instance.ID) :
         LET stat == [pstat EXCEPT
                        !.attachCalls = @ + 1,
                        !.attachSent = @ + (IF o.sent THEN 1 ELSE 0),
                        !.attachFail = @ + (IF o.err # <<>> THEN 1 ELSE 0),
                        !.lastAttach = pl.instance.ID,
                        !.lastAttachErr = o.err]
         IN  IF o.err # <<>> /\ ~attachErrorAccepted(o.err, pl.createdNow)
             THEN provisionFailed(stat) /\ UNCHANGED pl
             ELSE provisionReturn("success", stat)
    /\ UNCHANGED <<srv, calc, now, cancelled, inv, nCreated, cleanupVars>>

\* a sleep whose timer is set a day ahead
sleepWithContextEnter_endless ==
    /\ ppc = "sleepEnter"
    /\ pl' = [pl EXCEPT !.deadline = now + SecondsPerDay]
    /\ ppc' = "sleeping"
    /\ UNCHANGED <<srv, calc, now, cancelled, inv, nCreated, pNext, pstat, cleanupVars>>

\* sleepWithContext(ctx, backoff), up to the timer
sleepWithContextEnter ==
    /\ ppc = "sleepEnter"
    /\ pl' = [pl EXCEPT !.deadline = now + pl.backoff]
    /\ ppc' = "sleeping"
    /\ UNCHANGED <<srv, calc, now, cancelled, inv, nCreated, pNext, pstat, cleanupVars>>

\* a sleep that does not watch ctx (time.Sleep)
sleepWithContextDone_ignored ==
    /\ ppc = "sleeping"
    /\ FALSE
    /\ UNCHANGED vars

\* sleepWithContext, select: case <-ctx.Done()
sleepWithContextDone ==
    /\ ppc = "sleeping"
    /\ cancelled
    /\ provisionReturn("cancelled", pstat)
    /\ UNCHANGED <<srv, calc, now, cancelled, inv, nCreated, cleanupVars>>

\* a retry loop whose delay never grows
sleepWithContextTimer_noGrowth ==
    /\ ppc = "sleeping"
    /\ TimerFired(pl.deadline, now)
    /\ pl' = [pl EXCEPT !.backoff = pl.backoff,
                        !.deadline = 0,
                        !.retries = @ + 1]
    /\ ppc' = "top"
    /\ UNCHANGED <<srv, calc, now, cancelled, inv, nCreated, pNext, pstat, cleanupVars>>

\* sleepWithContext, select: case <-timer.C; then backoff = nextBackoff(...)
sleepWithContextTimer ==
    /\ ppc = "sleeping"
    /\ TimerFired(pl.deadline, now)
    /\ pl' = [pl EXCEPT !.backoff = nextBackoff(pl.backoff, defaultProvisionBackoffMax),
                        !.deadline = 0,
                        !.retries = @ + 1]
    /\ ppc' = "top"
    /\ UNCHANGED <<srv, calc, now, cancelled, inv, nCreated, pNext, pstat, cleanupVars>>

-----------------------------------------------------------------------------

CleanupStep ==
    \/ runDailyCleanupStart
    \/ runDailyCleanupStopped
    \/ runDailyCleanupTimer
    \/ reconcileLoopTop
    \/ reconcileDeletePass
    \/ sleepWithContextUntilEnter
    \/ sleepWithContextUntilDone
    \/ sleepWithContextUntilTimer

ProvisionStep ==
    \/ runDailyProvisionStart
    \/ runDailyProvisionStopped
    \/ runDailyProvisionTimer
    \/ reconcileEnsureTop
    \/ ensureCreate
    \/ ensureAttach
    \/ sleepWithContextEnter
    \/ sleepWithContextDone
    \/ sleepWithContextTimer

Next == Tick \/ stopBackground \/ CleanupStep \/ ProvisionStep

Spec == Init /\ [][Next]_vars

\* the goroutines are scheduled and the clock advances
CleanupFairSpec ==
    /\ Spec
    /\ WF_vars(Tick)
    /\ WF_vars(CleanupStep)

\* a step of either goroutine once backgroundCtx is done
stepAfterCancel == cancelled /\ (CleanupStep \/ ProvisionStep)

\* the goroutines keep being scheduled after cancellation
StopFairSpec ==
    /\ Spec
    /\ WF_vars(stepAfterCancel)

-----------------------------------------------------------------------------
(* The HTTP boundary: POST /shutdown.                                      *)

StatusAccepted == 202
StatusUnauthorized == 401

MaxRequests == 1    \* requests to POST /shutdown that are answered

\* SHUTDOWN_BEARER_TOKEN, trimmed and not empty
shutdownToken == <<116,111,107>>   \* "tok"

\* values of the Authorization header
hdrValid == <<66,101,97,114,101,114,32,116,111,107>>   \* 'Bearer tok'
hdrLowerScheme == <<98,101,97,114,101,114,32,116,111,107>>   \* 'bearer tok'
hdrPadded == <<32,32,66,101,97,114,101,114,32,9,32,116,111,107,32>>   \* '  Bearer \t tok '
hdrMissing == <<>>   \* ''
hdrWrongToken == <<66,101,97,114,101,114,32,116,105,107>>   \* 'Bearer tik'
hdrShortToken == <<66,101,97,114,101,114,32,116,111>>   \* 'Bearer to'
hdrBasic == <<66,97,115,105,99,32,116,111,107>>   \* 'Basic tok'
hdrThreeParts == <<66,101,97,114,101,114,32,116,111,107,32,120>>   \* 'Bearer tok x'

Headers ==
    {hdrValid, hdrLowerScheme, hdrPadded, hdrMissing, hdrWrongToken,
     hdrShortToken, hdrBasic, hdrThreeParts}

\* the scheme is compared with == instead of strings.EqualFold
authorizedBearerToken_caseSensitive(authHeader, expectedToken) ==
    LET parts == Fields(TrimSpace(authHeader))
    IN  IF Len(parts) # 2 \/ parts[1] # str_Bearer
        THEN FALSE
        ELSE LET presentedToken == parts[2]
             IN  IF Len(presentedToken) # Len(expectedToken)
                 THEN FALSE
                 ELSE ConstantTimeCompare(presentedToken, expectedToken) = 1

\* any token is accepted after the scheme
authorizedBearerToken_anyToken(authHeader, expectedToken) ==
    LET parts == Fields(TrimSpace(authHeader))
    IN  ~(Len(parts) # 2 \/ ~EqualFold(parts[1], str_Bearer))

authorizedBearerToken(authHeader, expectedToken) ==
    LET parts == Fields(TrimSpace(authHeader))
    IN  IF Len(parts) # 2 \/ ~EqualFold(parts[1], str_Bearer)
        THEN FALSE
        ELSE LET presentedToken == parts[2]
             IN  IF Len(presentedToken) # Len(expectedToken)
                 THEN FALSE
                 ELSE ConstantTimeCompare(presentedToken, expectedToken) = 1

schedulerVars == <<now, inv, nCreated, cleanupVars, provisionVars, calc>>

\* handleShutdown, up to the start of its goroutine (a.server is set before
\* the listener starts, so it is never nil here)
handleShutdown ==
    /\ ~srv.closing
    /\ srv.requests < MaxRequests
    /\ \E h \in Headers :
         IF ~authorizedBearerToken(h, shutdownToken)
         THEN srv' = [srv EXCEPT !.status = StatusUnauthorized, !.header = h,
                                 !.requests = @ + 1]
         ELSE srv' = [srv EXCEPT !.status = StatusAccepted, !.header = h,
                                 !.requests = @ + 1,
                                 !.g = Append(@, "spawned")]
    /\ UNCHANGED <<cancelled, schedulerVars>>

\* the goroutine of an accepted request: a.stopBackground()
shutdownStopBackground ==
    /\ \E i \in 1..Len(srv.g) :
         /\ srv.g[i] = "spawned"
         /\ srv' = [srv EXCEPT !.g[i] = "stopped"]
    /\ cancelled' = TRUE
    /\ UNCHANGED schedulerVars

\* the goroutine of an accepted request: a.server.Shutdown(ctx) begins
shutdownServer ==
    /\ \E i \in 1..Len(srv.g) :
         /\ srv.g[i] = "stopped"
         /\ srv' = [srv EXCEPT !.g[i] = "shutdown", !.closing = TRUE]
    /\ UNCHANGED <<cancelled, schedulerVars>>

\* the daemon starts with one instance in the account, which is not managed
ShutdownInit == Init /\ inv = {instOther}

ShutdownNext == Next \/ handleShutdown \/ shutdownStopBackground \/ shutdownServer

ShutdownSpec == ShutdownInit /\ [][ShutdownNext]_vars

-----------------------------------------------------------------------------
(* The cleanup loop alone, started ten minutes before the cutoff with one   *)
(* instance in the account: long enough for the retry delay to reach its    *)
(* ceiling.                                                                  *)

MaxRetryLists == 6   \* list calls of a run that are followed up

RetryStart == KST(1, 6, 50, 0)

RetryInit ==
    /\ now = RetryStart
    /\ cancelled = FALSE
    /\ inv \in {{instNoID}, {instOther}}
    /\ nCreated = 0
    /\ cpc = "start" /\ cNext = 0 /\ cl = clIdle /\ cstat = cstatIdle
    /\ ppc = "start" /\ pNext = 0 /\ pl = plIdle /\ pstat = pstatIdle
    /\ srv = srvIdle
    /\ calc = calcIdle

RetryNext ==
    \/ Tick
    \/ stopBackground
    \/ (cstat.listCalls < MaxRetryLists /\ CleanupStep)

RetrySpec == RetryInit /\ [][RetryNext]_vars

-----------------------------------------------------------------------------
(* The provision loop alone, with at most one managed instance in the       *)
(* account, in one of several states.                                       *)

Statuses ==
    {<<68,101,115,116,114,111,121,105,110,103>>,   \* "Destroying"
     <<112,101,110,100,105,110,103,95,100,101,108,101,116,101>>,   \* "pending_delete"
     <<84,69,82,77,73,78,65,84,69,68>>,   \* "TERMINATED"
     <<32,82,101,109,111,118,105,110,103,32>>,   \* " Removing "
     <<97,99,116,105,118,101>>,   \* "active"
     <<>>}

\* the managed instance "paropal-2", reporting the given status
instWithStatus(status) == [instDying EXCEPT !.Status = status]

ProvisionAloneInit ==
    /\ now \in StartTimes
    /\ cancelled = FALSE
    /\ inv \in {{}} \cup {{instWithStatus(st)} : st \in Statuses}
    /\ nCreated = 0
    /\ cpc = "start" /\ cNext = 0 /\ cl = clIdle /\ cstat = cstatIdle
    /\ ppc = "start" /\ pNext = 0 /\ pl = plIdle /\ pstat = pstatIdle
    /\ srv = srvIdle
    /\ calc = calcIdle

ProvisionAloneNext == Tick \/ stopBackground \/ ProvisionStep

ProvisionAloneSpec == ProvisionAloneInit /\ [][ProvisionAloneNext]_vars

-----------------------------------------------------------------------------
(* The daemon started ten seconds before midnight: the provision run starts *)
(* at once and, as long as it fails, is still retrying when the cleanup     *)
(* trigger comes at 00:10.                                                   *)

MaxOverlapCalls == 2   \* list and attach calls of the provision run that are followed up

OverlapStart == KST(0, 23, 59, 50)
OverlapEnd == KST(1, 0, 10, 5)

OverlapInit ==
    /\ now = OverlapStart
    /\ cancelled = FALSE
    /\ inv = {instOther}
    /\ nCreated = 0
    /\ cpc = "start" /\ cNext = 0 /\ cl = clIdle /\ cstat = cstatIdle
    /\ ppc = "start" /\ pNext = 0 /\ pl = plIdle /\ pstat = pstatIdle
    /\ srv = srvIdle
    /\ calc = calcIdle

OverlapNext ==
    \/ (Tick /\ now' <= OverlapEnd)
    \/ stopBackground
    \/ CleanupStep
    \/ (pstat.listCalls + pstat.attachCalls <= MaxOverlapCalls /\ ProvisionStep)

OverlapSpec == OverlapInit /\ [][OverlapNext]_vars

-----------------------------------------------------------------------------
(* The provision loop alone over two scheduled invocations: the daemon      *)
(* starts ten seconds before midnight, provisions at once, and is triggered *)
(* again at 07:10.  Timers fire when they are due.                          *)

MaxRetries == 6   \* retries of an invocation that are followed up

\* time passes until the provision loop's timer is due
provisionClock ==
    /\ \E t \in {pNext, pl.deadline} :
          /\ t > now
          /\ t <= MaxTime
          /\ now' = t
    /\ UNCHANGED <<srv, calc, cancelled, inv, nCreated, cleanupVars, provisionVars>>

ProvisionTwiceInit ==
    /\ now = OverlapStart
    /\ cancelled = FALSE
    /\ inv \in {{}, {instDying}, {instUsable}}
    /\ nCreated = 0
    /\ cpc = "start" /\ cNext = 0 /\ cl = clIdle /\ cstat = cstatIdle
    /\ ppc = "start" /\ pNext = 0 /\ pl = plIdle /\ pstat = pstatIdle
    /\ srv = srvIdle
    /\ calc = calcIdle

ProvisionTwiceNext ==
    \/ provisionClock
    \/ stopBackground
    \/ (pl.retries < MaxRetries /\ ProvisionStep)

ProvisionTwiceSpec == ProvisionTwiceInit /\ [][ProvisionTwiceNext]_vars

-----------------------------------------------------------------------------
(* The provision loop alone with a provider whose calls fail only a bounded *)
(* number of times per invocation, the goroutine scheduled and its timers   *)
(* firing.                                                                  *)

MaxFailures == 1   \* failed attempts of an invocation while ctx is live

\* an attempt fails only if fewer than MaxFailures attempts failed before it,
\* unless the failure is the cancellation
failsOnlyFinitely ==
    (ppc' = "sleepEnter" /\ ~cancelled) => pl.retries < MaxFailures

provisionStepFinitelyFailing == ProvisionStep /\ failsOnlyFinitely

ProvisionFairInit ==
    /\ now \in StartTimes
    /\ cancelled = FALSE
    /\ inv \in {{}, {instDying}, {instUsable}}
    /\ nCreated = 0
    /\ cpc = "start" /\ cNext = 0 /\ cl = clIdle /\ cstat = cstatIdle
    /\ ppc = "start" /\ pNext = 0 /\ pl = plIdle /\ pstat = pstatIdle
    /\ srv = srvIdle
    /\ calc = calcIdle

ProvisionFairNext ==
    \/ provisionClock
    \/ stopBackground
    \/ provisionStepFinitelyFailing

ProvisionFairSpec ==
    /\ ProvisionFairInit
    /\ [][ProvisionFairNext]_vars
    /\ WF_vars(provisionClock)
    /\ WF_vars(provisionStepFinitelyFailing)

-----------------------------------------------------------------------------
(* The cleanup loop alone over two days, with a trigger timer that may fire *)
(* late: on time, or when the process resumes in the first minutes of the   *)
(* following day.  The daemon starts just before its 00:10 trigger.         *)

LateStart == KST(0, 0, 9, 50)
LateWake == KST(1, 0, 5, 0)

\* time passes until a timer of the cleanup loop is due, or until the process
\* resumes
cleanupClock ==
    /\ \E t \in {cNext, cl.deadline, cl.cutoff, LateWake} :
          /\ t > now
          /\ t <= MaxTime
          /\ now' = t
    /\ UNCHANGED <<srv, calc, cancelled, inv, nCreated, cleanupVars, provisionVars>>

CleanupLateInit ==
    /\ now = LateStart
    /\ cancelled = FALSE
    /\ inv \in {{}, {instOther}}
    /\ nCreated = 0
    /\ cpc = "start" /\ cNext = 0 /\ cl = clIdle /\ cstat = cstatIdle
    /\ ppc = "start" /\ pNext = 0 /\ pl = plIdle /\ pstat = pstatIdle
    /\ srv = srvIdle
    /\ calc = calcIdle

CleanupLateNext ==
    \/ cleanupClock
    \/ stopBackground
    \/ (cstat.listCalls < MaxRetryLists /\ CleanupStep)

CleanupLateSpec == CleanupLateInit /\ [][CleanupLateNext]_vars

-----------------------------------------------------------------------------
(* Long retry sequences of either reconciler: the daemon starts at 06:50    *)
(* or ten seconds before midnight, and the behaviour follows one of the two *)
(* scheduler loops, the other goroutine not being scheduled.                *)

BackoffInit == RetryInit \/ ProvisionTwiceInit

BackoffNext ==
    \/ (ppc = "start" /\ RetryNext)
    \/ (cpc = "start" /\ ProvisionTwiceNext)

BackoffSpec == BackoffInit /\ [][BackoffNext]_vars

-----------------------------------------------------------------------------
(* The calculators applied alone: the window calculator on instants of a   *)
(* few days, the backoff generator on pairs of a delay and a ceiling.      *)

MaxCalcDay == 2      \* local days 0..MaxCalcDay
CalcStep == 300      \* the grid of instants, in seconds
MaxNegative == 2     \* delays and ceilings start at -MaxNegative
MaxStart == 6        \* the largest starting delay (besides the default)
MaxCeiling == 8      \* the largest ceiling (besides the default)
MaxApply == 10       \* applications of nextBackoff in a row

\* the seconds of a day at which something changes, and their neighbours
CalcBoundaries ==
    {b + e : b \in {0,
                    cleanupHourKST * 3600 + cleanupMinuteKST * 60,
                    cleanupWindowEndHourKST * 3600 + cleanupWindowEndMinuteKST * 60,
                    createHourKST * 3600 + createMinuteKST * 60,
                    SecondsPerDay},
             e \in -2..2}

CalcSecondsOfDay ==
    {s \in 0..(SecondsPerDay - 1) : s % CalcStep = 0 \/ s \in CalcBoundaries}

CalcInstants ==
    {DateKST(d, 0, 0) + s : d \in 0..MaxCalcDay, s \in CalcSecondsOfDay}

BackoffStarts == ((0 - MaxNegative)..MaxStart) \cup {defaultCleanupBackoffMin}
BackoffCeilings == ((0 - MaxNegative)..MaxCeiling) \cup {defaultCleanupBackoffMax}

\* Authorization headers put together from a lead, a scheme, a separator, a
\* token and a tail
HeaderLeads == {<<>>, <<32>>}
HeaderSchemes ==
    {str_Bearer, <<98,101,97,114,101,114>>, <<66,69,65,82,69,82>>, <<98,69,97,82,101,82>>, <<66,97,115,105,99>>, <<66,101,97,114,101,114,115>>, <<>>}
HeaderSeparators == {<<>>, <<32>>, <<32,32>>, <<9>>}
HeaderTokens == {<<116,111,107>>, <<116,105,107>>, <<116,111>>, <<116,111,107,115>>, <<84,79,75>>, <<>>}
HeaderTails == {<<>>, <<32>>, <<32,120>>}
ExpectedTokens == {<<116,111,107>>, <<116,111>>}

HeaderParts ==
    {<<l, sc, sp, tk, tl>> : l \in HeaderLeads, sc \in HeaderSchemes,
                             sp \in HeaderSeparators, tk \in HeaderTokens,
                             tl \in HeaderTails}

\* the header value the parts spell
HeaderOf(parts) == parts[1] \o parts[2] \o parts[3] \o parts[4] \o parts[5]

MaxListed == 3       \* instances in a list given to the selection

\* more managed instances: "paropal-1" with an address, "paropal-2" without,
\* "paropal-10" with an address, and a second "paropal-2" with an address
instFirstIP ==
    [ID |-> <<97>>, Status |-> <<97,99,116,105,118,101>>,
     MainIP |-> <<49,48,46,48,46,48,46,49>>,
     Label |-> <<112,97,114,111,112,97,108,45,49>>]
instSecondNoIP ==
    [ID |-> <<98>>, Status |-> <<97,99,116,105,118,101>>, MainIP |-> <<>>,
     Label |-> <<112,97,114,111,112,97,108,45,50>>]
instTenIP ==
    [ID |-> <<99>>, Status |-> <<97,99,116,105,118,101>>,
     MainIP |-> <<49,48,46,48,46,48,46,52>>,
     Label |-> <<112,97,114,111,112,97,108,45,49,48>>]
instTwin ==
    [ID |-> <<101>>, Status |-> <<97,99,116,105,118,101>>,
     MainIP |-> <<49,48,46,48,46,48,46,53>>,
     Label |-> <<112,97,114,111,112,97,108,45,50>>]

Listable == Catalog \cup {instFirstIP, instSecondNoIP, instTenIP, instTwin}

\* the lists of up to MaxListed distinct instances, in every order
Listings ==
    UNION {{q \in [1..n -> Listable] : \A i, j \in 1..n : q[i] = q[j] => i = j} :
           n \in 0..MaxListed}

MaxPages == 3        \* pages the provider holds

\* the instance on the k-th page, if the page is not empty
PageStock == <<instUsable, instOther, instDying, instNoID, instFirstIP>>

\* the cursor that asks for the k-th page: none for the first, then "p2", ...
CursorOf(k) == IF k = 1 THEN <<>> ELSE <<112, 48 + k>>

str_link == <<104,116,116,112,115,58,47,47,97,112,105,46,118,117,108,116,114,46,99,111,109,47,118,50,47,105,110,115,116,97,110,99,101,115,63,112,101,114,95,112,97,103,101,61,49,48,48,38,99,117,114,115,111,114,61>>   \* "https://api.vultr.com/v2/instances?per_page=100&cursor="

\* the next link of the k-th page: none, a blank, a URL whose query carries
\* the cursor of the following page, that cursor alone, or a link that does
\* not parse ("://")
LinkKinds == {"none", "blank", "url", "token", "bad"}

LinkOf(kind, k) ==
    CASE kind = "none" -> <<>>
      [] kind = "blank" -> <<32>>
      [] kind = "url" -> str_link \o CursorOf(k + 1)
      [] kind = "token" -> CursorOf(k + 1)
      [] kind = "bad" -> <<58, 47, 47>>

\* a provider: for each page whether it holds an instance, whether fetching
\* it fails, and the kind of its next link
Providers ==
    UNION {[1..n -> [has : BOOLEAN, fail : BOOLEAN, link : LinkKinds]] :
           n \in 1..MaxPages}

\* GET /instances?per_page=100[&cursor=...] against a provider; a cursor the
\* provider does not know is answered with an error
FetchOf(pages) ==
    [c \in {CursorOf(k) : k \in 1..(Len(pages) + 1)} |->
       LET k == CHOOSE j \in 1..(Len(pages) + 1) : CursorOf(j) = c
       IN  IF k > Len(pages) \/ pages[k].fail
           THEN [err |-> errInternal, Instances |-> <<>>, Next |-> <<>>]
           ELSE [err |-> <<>>,
                 Instances |-> IF pages[k].has THEN <<PageStock[k]>> ELSE <<>>,
                 Next |-> LinkOf(pages[k].link, k)]]

CalcInit ==
    /\ now = 0
    /\ cancelled = FALSE
    /\ inv = {}
    /\ nCreated = 0
    /\ cpc = "start" /\ cNext = 0 /\ cl = clIdle /\ cstat = cstatIdle
    /\ ppc = "start" /\ pNext = 0 /\ pl = plIdle /\ pstat = pstatIdle
    /\ srv = srvIdle
    /\ calc \in {[calcIdle EXCEPT !.op = "instant", !.t = t] : t \in CalcInstants}
          \cup {[calcIdle EXCEPT !.op = "backoff", !.start = c, !.current = c,
                                 !.max = m] :
                 c \in BackoffStarts, m \in BackoffCeilings}
          \cup {[calcIdle EXCEPT !.op = "header", !.parts = p, !.expected = e] :
                 p \in HeaderParts, e \in ExpectedTokens}
          \cup {[calcIdle EXCEPT !.op = "listing", !.instances = q] :
                 q \in Listings}
          \cup {[calcIdle EXCEPT !.op = "provider", !.pages = ps] :
                 ps \in Providers}

calcOnly ==
    UNCHANGED <<now, cancelled, inv, nCreated, cleanupVars, provisionVars, srv>>

applyNextCleanupTimeKST ==
    /\ calc.op = "instant"
    /\ calc' = [calc EXCEPT !.op = "nextCleanupTimeKST",
                            !.out = nextCleanupTimeKST(calc.t)]
    /\ calcOnly

applyNextProvisionTimeKST ==
    /\ calc.op = "instant"
    /\ calc' = [calc EXCEPT !.op = "nextProvisionTimeKST",
                            !.out = nextProvisionTimeKST(calc.t)]
    /\ calcOnly

applyIsWithinCleanupWindow ==
    /\ calc.op = "instant"
    /\ calc' = [calc EXCEPT !.op = "isWithinCleanupWindow",
                            !.within = isWithinCleanupWindow(calc.t)]
    /\ calcOnly

applyFirstCleanupRunTimeKST ==
    /\ calc.op = "instant"
    /\ calc' = [calc EXCEPT !.op = "firstCleanupRunTimeKST",
                            !.out = firstCleanupRunTimeKST(calc.t)]
    /\ calcOnly

applyFirstProvisionRunTimeKST ==
    /\ calc.op = "instant"
    /\ calc' = [calc EXCEPT !.op = "firstProvisionRunTimeKST",
                            !.out = firstProvisionRunTimeKST(calc.t)]
    /\ calcOnly

\* backoff = nextBackoff(backoff, max), once more
applyNextBackoff ==
    /\ calc.op = "backoff"
    /\ calc.n < MaxApply
    /\ calc' = [calc EXCEPT !.current = nextBackoff(calc.current, calc.max),
                            !.n = @ + 1]
    /\ calcOnly

applyAuthorizedBearerToken ==
    /\ calc.op = "header"
    /\ calc' = [calc EXCEPT !.op = "authorizedBearerToken",
                            !.within = authorizedBearerToken(HeaderOf(calc.parts),
                                                             calc.expected)]
    /\ calcOnly

applyFirstInstanceWithLabelPrefix ==
    /\ calc.op = "listing"
    /\ calc' = [calc EXCEPT !.op = "firstInstanceWithLabelPrefix",
                            !.sel = firstInstanceWithLabelPrefix(calc.instances,
                                                                 labelPrefix)]
    /\ calcOnly

applyListAllInstances ==
    /\ calc.op = "provider"
    /\ calc' = [calc EXCEPT !.op = "listAllInstances",
                            !.res = listPagesFrom(FetchOf(calc.pages), <<>>, <<>>)]
    /\ calcOnly

CalcNext ==
    \/ applyNextCleanupTimeKST
    \/ applyNextProvisionTimeKST
    \/ applyIsWithinCleanupWindow
    \/ applyFirstCleanupRunTimeKST
    \/ applyFirstProvisionRunTimeKST
    \/ applyNextBackoff
    \/ applyAuthorizedBearerToken
    \/ applyFirstInstanceWithLabelPrefix
    \/ applyListAllInstances

CalcSpec == CalcInit /\ [][CalcNext]_vars

-----------------------------------------------------------------------------
(* Properties.                                                                *)

cleanupRunning == cpc \in {"top", "pass", "sleepEnter", "sleeping"}
provisionRunning == ppc \in {"top", "create", "attach", "sleepEnter", "sleeping"}

\* C1: within one invocation of reconcileEnsureParopalInstance at most one
\* create call returns success, whatever the list, create and attach calls
\* answer and however often the attempt is retried.
C1_AtMostOneCreateSucceeds == pstat.createOK <= 1

\* C1 witness: an invocation created an instance and retried afterwards.
C1_Witness == pstat.createOK = 1 /\ pstat.attachCalls >= 2

\* C2: in every step taken while the run-state records a created instance id,
\* no list call and no create call is issued, and an attach call that is
\* issued goes to the recorded instance id.
C2_PopulatedRunStateOnlyAttaches ==
    [][pl.state.instanceID # <<>> =>
         /\ pstat'.listCalls = pstat.listCalls
         /\ pstat'.createCalls = pstat.createCalls
         /\ (pstat'.attachCalls > pstat.attachCalls =>
               pstat'.lastAttach = pl.state.instanceID)]_vars

\* C2 witness: a retry attached to the recorded instance and failed again.
C2_Witness ==
    /\ ppc = "sleepEnter"
    /\ pl.state.instanceID # <<>>
    /\ pstat.attachCalls >= 2
    /\ pstat.lastAttach = pl.state.instanceID

\* C3: an invocation that returned without cancellation, in which no list call
\* failed or showed a managed instance, no create call failed and exactly one
\* attach call failed, has ended in success after exactly one create call and
\* at least two attach calls.
C3_AttachFailsOnce ==
    (/\ pstat.result \in {"success", "cancelled"}
     /\ ~cancelled
     /\ ~pstat.listFailed
     /\ ~pstat.managedListed
     /\ pstat.createCalls = pstat.createOK
     /\ pstat.attachFail = 1)
    => (/\ pstat.result = "success"
        /\ pstat.createCalls = 1
        /\ pstat.attachCalls >= 2)

\* C3 witness: such an invocation has returned.
C3_Witness ==
    /\ pstat.result = "success"
    /\ ~cancelled
    /\ ~pstat.listFailed
    /\ ~pstat.managedListed
    /\ pstat.createCalls = 1
    /\ pstat.createOK = 1
    /\ pstat.attachFail = 1
    /\ pstat.attachCalls = 2

\* C4: a create call is issued only in an attempt whose listing showed no
\* managed instance with a status that is not terminating.
C4_NoCreateWhenUsableListed ==
    [][pstat'.createCalls > pstat.createCalls => ~pstat.usableListed]_vars

\* C5 as stated: a cleanup run over N instances with ids, with no failure, no
\* lag, deletes that take effect at once, no cancellation and no cutoff, ends
\* with nothing left after exactly N delete calls and at least two list calls.
C5_Original ==
    (cstat.result = "complete" /\ cstat.ideal)
    => (/\ cstat.remaining = 0
        /\ cstat.deleteCalls = cstat.n0
        /\ cstat.listCalls >= 2)

\* C5 amended: as C5, with at least two list calls when N >= 1 and exactly one
\* list call (the initial one, which is empty) when N = 0.
C5_IdealRunDeletesAll ==
    (cstat.result = "complete" /\ cstat.ideal)
    => (/\ cstat.remaining = 0
        /\ cstat.deleteCalls = cstat.n0
        /\ (cstat.n0 >= 1 => cstat.listCalls >= 2)
        /\ (cstat.n0 = 0 => cstat.listCalls = 1))

\* C5 witness: such a run over two instances has completed.
C5_Witness ==
    /\ cstat.result = "complete"
    /\ cstat.ideal
    /\ cstat.n0 = 2
    /\ cstat.deleteCalls = 2
    /\ cstat.listCalls = 2

\* C6: a cleanup run that reads the clock for the first time when the cutoff
\* has already passed returns with no list call and no delete call made.
C6_PastCutoffMakesNoCalls ==
    [][(/\ cpc = "top"
        /\ cstat.listCalls = 0
        /\ now >= cl.cutoff
        /\ cpc' # "top")
       => (/\ cpc' = "wait"
           /\ cstat'.listCalls = 0
           /\ cstat'.deleteCalls = 0)]_vars

\* C6 witness: a run over a non-empty inventory ended at the cutoff without a call.
C6_Witness ==
    /\ cstat.result = "cutoff"
    /\ cstat.listCalls = 0
    /\ cstat.deleteCalls = 0
    /\ cstat.n0 > 0

\* C7: every list call and every delete call of a cleanup run is issued at an
\* instant strictly before the run's cutoff.
C7_NoCallAtOrAfterCutoff ==
    [][(cstat'.listCalls > cstat.listCalls \/ cstat'.deleteCalls > cstat.deleteCalls)
       => now < cl.cutoff]_vars

\* C7 witness: the cutoff passes in the middle of a delete pass.
C7_Witness ==
    /\ cpc = "pass"
    /\ cl.instances # <<>>
    /\ cstat.deleteCalls >= 1
    /\ now >= cl.cutoff

\* C8: every cleanup run eventually returns.
C8_CleanupRunReturns == cleanupRunning ~> ~cleanupRunning

\* C8 witness: a run whose lists and deletes kept failing ended at the cutoff.
C8_Witness ==
    /\ cstat.result = "cutoff"
    /\ cstat.listCalls >= 2
    /\ cstat.deleteCalls >= 1
    /\ cstat.deleteSent = cstat.deleteCalls
    /\ cstat.remaining > 0

bothStopped == cpc = "stopped" /\ ppc = "stopped"

C12_Original ==
    [][/\ (cancelled /\ cpc = "wait" /\ cpc' # cpc) => cpc' = "stopped"
       /\ (cancelled /\ ppc = "wait" /\ ppc' # ppc) => ppc' = "stopped"
       /\ (cpc' = "stopped" /\ cpc # "stopped") => cancelled
       /\ (ppc' = "stopped" /\ ppc # "stopped") => cancelled]_vars

\* C12 amended: a loop stops only from its wait and only under cancellation;
\* a waiting loop whose trigger is not yet due leaves the wait under
\* cancellation only to stop; a run started under cancellation (the trigger
\* was due as well) returns in its first step without a client call.
C12_StopOnlyByCancel ==
    [][/\ (cancelled /\ cpc = "wait" /\ now < cNext /\ cpc' # cpc) => cpc' = "stopped"
       /\ (cancelled /\ ppc = "wait" /\ now < pNext /\ ppc' # ppc) => ppc' = "stopped"
       /\ (cpc' = "stopped" /\ cpc # "stopped") => (cancelled /\ cpc = "wait")
       /\ (ppc' = "stopped" /\ ppc # "stopped") => (cancelled /\ ppc = "wait")
       /\ (cstat.afterCancel /\ cpc = "top" /\ cpc' # cpc) =>
             (cpc' = "wait" /\ cstat'.listCalls = 0 /\ cstat'.deleteCalls = 0)
       /\ (pstat.afterCancel /\ ppc = "top" /\ ppc' # ppc) =>
             (/\ ppc' = "wait" /\ pstat'.listCalls = 0
              /\ pstat'.createCalls = 0 /\ pstat'.attachCalls = 0)]_vars

\* C12 witness: the cleanup loop stopped while waiting for a trigger that was
\* not due, without ever invoking its reconciler.
C12_Witness ==
    /\ cpc = "stopped"
    /\ cstat.result = "none"
    /\ now < cNext

\* C13: when the cleanup loop leaves its wait through the timer, it starts the
\* reconciler only at an instant of the window 00:00 <= t < 07:00 KST; at an
\* instant outside the window it stays in the wait, makes no list or delete
\* call, leaves the inventory alone and sets next to the first 00:10 KST that
\* is strictly after the current instant.
C13_RunOnlyInsideWindow ==
    [][/\ (cpc = "wait" /\ cpc' = "top") =>
             (0 <= LocalSecondOfDay(now) /\ LocalSecondOfDay(now) < 7 * 3600)
       /\ (cpc = "wait" /\ cpc' = "wait" /\ cNext' # cNext) =>
             (/\ LocalSecondOfDay(now) >= 7 * 3600
              /\ cstat' = cstat
              /\ inv' = inv
              /\ cNext' > now
              /\ cNext' - now <= 24 * 3600
              /\ LocalSecondOfDay(cNext') = 10 * 60)
       /\ (cpc = "wait" /\ LocalSecondOfDay(now) >= 7 * 3600) => cpc' # "top"]_vars

\* C13 witness: the wait elapsed at 07:00:00 KST with instances in the account;
\* the run was skipped and next is 00:10 KST of the following day.
C13_Witness ==
    /\ cpc = "wait"
    /\ cstat.result = "none"
    /\ LocalSecondOfDay(now) = 7 * 3600
    /\ cNext = DateKST(LocalDay(now) + 1, 0, 10)
    /\ inv # {}

\* C14: nextCleanupTimeKST(t) is 00:10 KST and nextProvisionTimeKST(t) is
\* 07:10 KST of the day of t when t is strictly before that minute, and of the
\* following day when t is at or after it; the result is strictly after t.
C14_NextTriggerStrictlyAfter ==
    LET day == LocalDay(calc.t)
        sec == LocalSecondOfDay(calc.t)
        minute == IF calc.op = "nextCleanupTimeKST" THEN 10 * 60 ELSE 7 * 3600 + 10 * 60
    IN  calc.op \in {"nextCleanupTimeKST", "nextProvisionTimeKST"} =>
          /\ calc.out > calc.t
          /\ LocalSecondOfDay(calc.out) = minute
          /\ LocalDay(calc.out) = IF sec < minute THEN day ELSE day + 1

\* C14 witness: 00:10:00 KST exactly gives 00:10:00 KST of the next day.
C14_Witness ==
    /\ calc.op = "nextCleanupTimeKST"
    /\ LocalSecondOfDay(calc.t) = 10 * 60
    /\ calc.out = calc.t + 24 * 3600

\* C15: isWithinCleanupWindow(t) is true exactly for the instants of the day
\* of t from 00:00:00 KST on that are strictly before 07:00:00 KST.
C15_WindowIsHalfOpen ==
    calc.op = "isWithinCleanupWindow" =>
      (calc.within <=> (/\ 0 <= LocalSecondOfDay(calc.t)
                        /\ LocalSecondOfDay(calc.t) < 7 * 3600))

\* C15 witness: the end instant 07:00:00 KST is outside the window.
C15_Witness ==
    /\ calc.op = "isWithinCleanupWindow"
    /\ LocalSecondOfDay(calc.t) = 7 * 3600
    /\ ~calc.within

C17_CleanupCatchUp ==
    LET day == LocalDay(calc.t)
        sec == LocalSecondOfDay(calc.t)
    IN  calc.op = "firstCleanupRunTimeKST" =>
          /\ calc.out >= calc.t
          /\ sec < 10 * 60 =>
                (LocalDay(calc.out) = day /\ LocalSecondOfDay(calc.out) = 10 * 60)
          /\ (10 * 60 <= sec /\ sec < 7 * 3600) => calc.out = calc.t
          /\ sec >= 7 * 3600 =>
                (LocalDay(calc.out) = day + 1 /\ LocalSecondOfDay(calc.out) = 10 * 60)

\* C17 witness: at 06:59:59 KST the first run is due at once.
C17_Witness ==
    /\ calc.op = "firstCleanupRunTimeKST"
    /\ LocalSecondOfDay(calc.t) = 7 * 3600 - 1
    /\ calc.out = calc.t

C19_DeletesEveryListedInstance ==
    LET done == SubSeq(cl.listed, 1, Len(cl.listed) - Len(cl.instances))
        ids == [i \in 1..Len(done) |-> done[i].ID]
        nonEmpty(id) == id # <<>>
    IN  cpc = "pass" => cl.attempted = SelectSeq(ids, nonEmpty)

\* C19 witness: a pass over one managed and one unmanaged instance reached
\* its end with a delete call for each.
C19_Witness ==
    /\ cpc = "pass"
    /\ cl.instances = <<>>
    /\ Len(cl.attempted) = 2
    /\ \E i \in 1..2 : HasPrefix(cl.listed[i].Label, labelPrefix)
    /\ \E i \in 1..2 : ~HasPrefix(cl.listed[i].Label, labelPrefix)

\* C20: a request to POST /shutdown whose Authorization header carries the
\* Bearer scheme and the configured token is answered 202 and starts a
\* goroutine; a request whose token is missing or wrong is answered 401 and
\* starts nothing; answering raises no cancellation and starts no shutdown by
\* itself; the goroutine raises the cancellation first, and the shutdown of
\* the listener begins only under cancellation and only from such a goroutine.
C20_ShutdownAfterCancel ==
    [][/\ srv'.requests = srv.requests + 1 =>
             /\ srv'.header \in {hdrValid, hdrLowerScheme, hdrPadded} =>
                   (srv'.status = 202 /\ srv'.g = Append(srv.g, "spawned"))
             /\ srv'.header \in {hdrMissing, hdrWrongToken, hdrShortToken} =>
                   (srv'.status = 401 /\ srv'.g = srv.g)
             /\ srv'.status \in {202, 401}
             /\ cancelled' = cancelled
             /\ srv'.closing = srv.closing
       /\ \A i \in 1..Len(srv.g) :
             (srv.g[i] = "spawned" /\ srv'.g[i] # "spawned") =>
                (srv'.g[i] = "stopped" /\ cancelled' /\ srv'.closing = srv.closing)
       /\ (srv'.closing /\ ~srv.closing) =>
             (cancelled /\ \E i \in 1..Len(srv.g) : srv.g[i] = "stopped")]_vars

\* C20 witness: a request with the right token after a padded scheme was
\* answered 202, and the shutdown of the listener has begun after both
\* scheduler loops were told to stop.
C20_Witness ==
    /\ srv.requests = 1
    /\ srv.header = hdrPadded
    /\ srv.status = 202
    /\ srv.g = <<"shutdown">>
    /\ srv.closing
    /\ cancelled

\* C21: authorizedBearerToken(header, expected) is true exactly when the
\* header is a scheme that reads Bearer in any case, white space, and the
\* expected token, with nothing but white space around them.
C21_BearerTokenExact ==
    calc.op = "authorizedBearerToken" =>
      (calc.within <=>
         /\ calc.parts[2] \in {str_Bearer, <<98,101,97,114,101,114>>, <<66,69,65,82,69,82>>, <<98,69,97,82,101,82>>}
         /\ calc.parts[3] # <<>>
         /\ calc.parts[4] = calc.expected
         /\ calc.parts[5] \in {<<>>, <<32>>})

\* C21 witness: "BEARER", a tab and the token, with a space before and
\* after, is accepted; so lower and upper case of the scheme both occur.
C21_Witness ==
    /\ calc.op = "authorizedBearerToken"
    /\ calc.parts = <<<<32>>, <<66,69,65,82,69,82>>, <<9>>, <<116,111,107>>, <<32>>>>
    /\ calc.expected = <<116,111,107>>
    /\ calc.within

\* C22: a step in which the cleanup reconciler returns is a list call that
\* returned an empty list, or is taken with the clock at or past the cutoff,
\* or is taken under cancellation; a return that reports completion is always
\* the first of these.
C22_ReturnsOnlyWhenDone ==
    [][(cleanupRunning /\ ~cleanupRunning') =>
         /\ \/ (cstat'.listCalls = cstat.listCalls + 1 /\ cstat'.lastList = 0)
            \/ now >= cl.cutoff
            \/ cancelled
         /\ cstat'.result = "complete" =>
               (/\ cpc = "top"
                /\ cstat'.listCalls = cstat.listCalls + 1
                /\ cstat'.lastList = 0)]_vars

\* C22 witness: a run deleted an instance, listed again, saw nothing and
\* returned, before the cutoff and without cancellation.
C22_Witness ==
    /\ cstat.result = "complete"
    /\ cstat.deleteCalls >= 1
    /\ cstat.listCalls >= 2
    /\ cstat.lastList = 0
    /\ ~cancelled
    /\ LocalSecondOfDay(now) < 7 * 3600

C24_FailureCountedPassContinues ==
    [][/\ (/\ cpc = "pass"
           /\ cl.instances # <<>>
           /\ Head(cl.instances).ID = <<>>
           /\ now < cl.cutoff
           /\ cleanupVars' # cleanupVars) =>
            /\ cstat'.deleteCalls = cstat.deleteCalls
            /\ cl'.deleteFailures = cl.deleteFailures + 1
            /\ cl'.instances = Tail(cl.instances)
            /\ cpc' = "pass"
       /\ (/\ cstat'.deleteCalls = cstat.deleteCalls + 1
           /\ cl'.lastDeleteFailed) =>
            /\ cl'.deleteFailures = cl.deleteFailures + 1
            /\ cl'.instances = Tail(cl.instances)
            /\ cpc' = "pass"
       /\ (/\ cl.deleteFailures > 0
           /\ cpc \in {"pass", "sleepEnter", "sleeping"}
           /\ cleanupVars' # cleanupVars) =>
            /\ cstat'.result # "complete"
            /\ cstat'.listCalls = cstat.listCalls
            /\ cpc' = "top" => cl.after = "backoff"]_vars

\* C24 witness: a pass whose first delete call failed has gone on to the
\* second listed instance and made a successful delete call for it.
C24_Witness ==
    /\ cpc = "sleepEnter"
    /\ cl.after = "pace"
    /\ cl.deleteFailures = 1
    /\ Len(cl.listed) = 2
    /\ Len(cl.attempted) = 2

\* C25: a list call that fails, and a pass that ends with a failure, are
\* followed by a sleep of the current retry delay, after which the delay is
\* min(2 * delay, ceiling) and the loop is back at its top; a pass that ends
\* without failure is followed by a sleep of the settle delay, after which the
\* delay is the minimum and the loop is back at its top. A sleep lasts its
\* delay or, if shorter, the time left to the cutoff, and delete calls are
\* made only in a pass over the list that the latest list call returned.
C25_RetryTransitions ==
    [][/\ (/\ cpc = "top"
           /\ cstat'.listCalls = cstat.listCalls + 1
           /\ cstat'.lastList = -1) =>
            /\ cpc' = "sleepEnter"
            /\ cl'.d = cl.backoff
            /\ cl'.after = "backoff"
            /\ cl'.instances = <<>>
       /\ (/\ cpc = "pass"
           /\ cl.instances = <<>>
           /\ cleanupVars' # cleanupVars) =>
            /\ cpc' = "sleepEnter"
            /\ cl.deleteFailures > 0 =>
                  (cl'.d = cl.backoff /\ cl'.after = "backoff")
            /\ cl.deleteFailures = 0 =>
                  (cl'.d = defaultCleanupSettleDelay /\ cl'.after = "settle")
       /\ (cpc = "sleepEnter" /\ cpc' = "sleeping") =>
            cl'.deadline = now + (IF cl.d < cl.cutoff - now
                                  THEN cl.d ELSE cl.cutoff - now)
       /\ (/\ cpc = "sleeping"
           /\ cl.after \in {"backoff", "settle"}
           /\ cleanupRunning'
           /\ cleanupVars' # cleanupVars) =>
            /\ now >= cl.deadline
            /\ cpc' = "top"
            /\ cl.after = "backoff" =>
                  cl'.backoff = IF 2 * cl.backoff < defaultCleanupBackoffMax
                                THEN 2 * cl.backoff
                                ELSE defaultCleanupBackoffMax
            /\ cl.after = "settle" => cl'.backoff = defaultCleanupBackoffMin
       /\ cstat'.deleteCalls # cstat.deleteCalls =>
            /\ cpc = "pass"
            /\ cstat.lastList = Len(cl.listed)
            /\ cstat.lastList > 0]_vars

\* C25 witness: after five failures in a row the retry delay stands at its
\* ceiling and the loop is about to list for the sixth time.
C25_Witness ==
    /\ cpc = "top"
    /\ cl.backoff = defaultCleanupBackoffMax
    /\ cstat.listCalls = 5
    /\ now = RetryStart + 465

\* C26: applied to a list, firstInstanceWithLabelPrefix reports not-found
\* exactly when no listed label starts with the prefix; otherwise it returns a
\* listed instance with the prefix to which no other listed instance with the
\* prefix is preferred (one with an address over one without, then the
\* greater label), and in whatever order the same instances are listed the
\* result has the same label and the same having of an address.
C26_SelectsMaximal ==
    calc.op = "firstInstanceWithLabelPrefix" =>
      LET L == calc.instances
          managed == {i \in 1..Len(L) : HasPrefix(L[i].Label, labelPrefix)}
          hasIP(x) == x.MainIP # <<>>
          preferred(a, b) ==
              \/ hasIP(a) /\ ~hasIP(b)
              \/ hasIP(a) = hasIP(b) /\ StrGreater(a.Label, b.Label)
          orders == {q \in [1..Len(L) -> {L[i] : i \in 1..Len(L)}] :
                       \A i, j \in 1..Len(L) : q[i] = q[j] => i = j}
      IN  /\ calc.sel.found <=> managed # {}
          /\ calc.sel.found =>
                /\ \E i \in managed : L[i] = calc.sel.inst
                /\ \A j \in managed : ~preferred(L[j], calc.sel.inst)
          /\ \A q \in orders :
                LET r == firstInstanceWithLabelPrefix(q, labelPrefix)
                IN  /\ r.found = calc.sel.found
                    /\ r.inst.Label = calc.sel.inst.Label
                    /\ hasIP(r.inst) = hasIP(calc.sel.inst)

\* C26 witness: listed are "paropal-2" without an address, then "paropal-1"
\* with one, then "web"; the selection is "paropal-1".
C26_Witness ==
    /\ calc.op = "firstInstanceWithLabelPrefix"
    /\ calc.instances = <<instSecondNoIP, instFirstIP, instOther>>
    /\ calc.sel = [found |-> TRUE, inst |-> instFirstIP]

C28_AlreadyAttachedOnlyIfNotCreated ==
    [][(ppc = "attach" /\ pstat'.attachCalls = pstat.attachCalls + 1) =>
         LET err == pstat'.lastAttachErr
             already == \/ Contains(ToLower(err), str_already_attached)
                        \/ Contains(ToLower(err), str_already_in_use)
             accepted == err = <<>> \/ (already /\ ~pl.createdNow)
         IN  /\ pl.createdNow =>
                   /\ pl.state.instanceID = pl.instance.ID
                   /\ pl.instance.ID \in CreatedIDs
             /\ ~pl.createdNow =>
                   /\ pl.state = emptyRunState
                   /\ pl.selected.found
                   /\ pl.instance = pl.selected.inst
             /\ accepted => (ppc' = "wait" /\ pstat'.result = "success")
             /\ ~accepted => (ppc' = "sleepEnter" /\ pstat'.result = "running"
                                /\ pstat'.attachFail = pstat.attachFail + 1)]_vars

\* C28 witness: the attempt created an instance, its attach was answered
\* "Volume Already In Use", and the attempt failed into the retry sleep.
C28_Witness ==
    /\ ppc = "sleepEnter"
    /\ pl.createdNow
    /\ pstat.createOK = 1
    /\ pstat.attachCalls = 1
    /\ pstat.lastAttachErr = errAlreadyInUse

\* C29: the attach of an attempt that starts with a populated run-state ends
\* the run with success when the call returned no error or an error of the
\* already-attached kind; any other error fails the attempt, run-state is
\* kept, and the loop sleeps its retry delay, doubles it up to the ceiling
\* and tries again.
C29_RetryAttachAcceptsAlreadyAttached ==
    [][/\ (ppc = "top" /\ pstat'.attachCalls = pstat.attachCalls + 1) =>
            LET err == pstat'.lastAttachErr
                already == \/ Contains(ToLower(err), str_already_attached)
                           \/ Contains(ToLower(err), str_already_in_use)
            IN  /\ pl.state.instanceID # <<>>
                /\ pstat'.lastAttach = pl.state.instanceID
                /\ (err = <<>> \/ already) =>
                      (ppc' = "wait" /\ pstat'.result = "success")
                /\ ~(err = <<>> \/ already) =>
                      (ppc' = "sleepEnter" /\ pl' = pl
                         /\ pstat'.result = "running")
       /\ (ppc = "sleepEnter" /\ provisionVars' # provisionVars) =>
            (ppc' = "sleeping" /\ pl'.deadline = now + pl.backoff)
       /\ (ppc = "sleeping" /\ ppc' = "top") =>
            /\ now >= pl.deadline
            /\ pl'.state = pl.state
            /\ pl'.backoff = IF 2 * pl.backoff < defaultProvisionBackoffMax
                              THEN 2 * pl.backoff
                              ELSE defaultProvisionBackoffMax]_vars

\* C29 witness: the attach after the create failed, the next attempt attached
\* to the recorded instance, was answered "Block storage is already
\* attached", and the run ended with success.
C29_Witness ==
    /\ pstat.result = "success"
    /\ pstat.createOK = 1
    /\ pstat.attachCalls = 2
    /\ pstat.attachFail = 2
    /\ pstat.lastAttachErr = errAlreadyAttached
    /\ pstat.lastAttach = NewID(1)

\* C30: at most one invocation of the cleanup reconciler and at most one of
\* the provision reconciler is in progress, and each loop's trigger, once
\* due, can be taken whatever the other loop is doing.
C30_NoReentryNoDelay ==
    /\ cstat.active \in {0, 1} /\ (cstat.active = 1 <=> cleanupRunning)
    /\ pstat.active \in {0, 1} /\ (pstat.active = 1 <=> provisionRunning)
    /\ (cpc = "wait" /\ now >= cNext) => ENABLED runDailyCleanupTimer
    /\ (ppc = "wait" /\ now >= pNext) => ENABLED runDailyProvisionTimer

\* C30 witness: a cleanup invocation and a provision invocation are in
\* progress at the same time, each having made a list call.
C30_Witness ==
    /\ cleanupRunning /\ provisionRunning
    /\ cstat.active = 1 /\ pstat.active = 1
    /\ cstat.listCalls >= 1
    /\ pstat.listCalls >= 1

\* C31: listAllInstances returns either an error and no instances, or no
\* error and the instances of every page of the provider, in page order, from
\* the first page to the first page that names no following page.
C31_ListsEveryPage ==
    calc.op = "listAllInstances" =>
      LET pages == calc.pages
          linked(k) == pages[k].link \in {"url", "token"}
          last == CHOOSE k \in 1..Len(pages) :
                    /\ k = Len(pages) \/ ~linked(k)
                    /\ \A j \in 1..(k - 1) : linked(j)
          stock(k) == IF pages[k].has THEN <<PageStock[k]>> ELSE <<>>
          concat[k \in 0..Len(pages)] ==
              IF k = 0 THEN <<>> ELSE concat[k - 1] \o stock(k)
      IN  \/ calc.res.err # <<>> /\ calc.res.instances = <<>>
          \/ calc.res.err = <<>> /\ calc.res.instances = concat[last]

\* C32: an invocation of the provision reconciler starts with empty run-state,
\* the minimum retry delay and nothing resolved, whatever the invocation
\* before it recorded; the sleep before its k-th retry lasts
\* min(15 s * 2^(k-1), 5 min); and the run-state and the delay of an
\* invocation are gone once it has returned.
C32_InvocationStartsFresh ==
    [][LET pow2[i \in 0..(MaxRetries + 1)] == IF i = 0 THEN 1 ELSE 2 * pow2[i - 1]
           delay(k) == IF 15 * pow2[k - 1] < 300 THEN 15 * pow2[k - 1] ELSE 300
       IN  /\ (~provisionRunning /\ provisionRunning') =>
                /\ pl'.state = emptyRunState
                /\ pl'.backoff = defaultProvisionBackoffMin
                /\ pl'.backoff = 15
                /\ pl'.retries = 0
                /\ pl'.instance = NoInstance /\ ~pl'.createdNow
                /\ pstat'.createCalls = 0 /\ pstat'.attachCalls = 0
           /\ (ppc = "sleepEnter" /\ ppc' = "sleeping") =>
                pl'.deadline = now + delay(pl.retries + 1)
           /\ (ppc = "sleeping" /\ ppc' = "top") =>
                (now >= pl.deadline /\ pl'.retries = pl.retries + 1)
           /\ (provisionRunning /\ ~provisionRunning') =>
                (pl'.state = emptyRunState /\ pl'.backoff = 0)]_vars

\* C32 witness: the second invocation has just started, with empty run-state
\* and the minimum delay, after a first invocation that created an instance.
C32_Witness ==
    /\ pstat.runs = 2
    /\ ppc = "top"
    /\ nCreated = 1
    /\ pstat.listCalls = 0 /\ pstat.attachCalls = 0
    /\ pl.state = emptyRunState
    /\ pl.backoff = defaultProvisionBackoffMin

\* C33: during a provision invocation the run-state is populated exactly when
\* a create call of this invocation has returned without error; a create call
\* that returns an error, a response without a usable instance id included,
\* leaves the run-state empty and sends the loop to sleep, and a retry with
\* empty run-state queries the inventory again before anything else.
C33_PopulatedIffCreateSucceeded ==
    [][/\ provisionRunning' =>
            (hasCreatedInstance(pl'.state) <=> pstat'.createOK >= 1)
       /\ (ppc = "create" /\ ppc' # "create" /\ pstat'.createOK = pstat.createOK) =>
            /\ pstat'.createCalls = pstat.createCalls + 1
            /\ pl'.state = emptyRunState
            /\ ppc' = "sleepEnter"
       /\ (ppc = "create" /\ pstat'.createOK = pstat.createOK + 1) =>
            /\ pl'.state.instanceID = NewID(nCreated')
            /\ ppc' = "attach"
       /\ (ppc = "top" /\ ppc' # "top" /\ provisionRunning'
             /\ ~hasCreatedInstance(pl.state)) =>
            /\ pstat'.listCalls = pstat.listCalls + 1
            /\ pstat'.attachCalls = pstat.attachCalls
            /\ ppc' \in {"create", "attach", "sleepEnter"}]_vars

\* C33 witness: a second create call is about to be issued in an invocation
\* whose first create call made an instance but answered without its id.
C33_Witness ==
    /\ provisionRunning
    /\ ppc = "create"
    /\ pstat.createCalls = 1 /\ pstat.createOK = 0
    /\ nCreated = 1
    /\ pstat.listCalls = 2
    /\ pl.state = emptyRunState

\* C34: the first attach against the instance created in this invocation,
\* answered already-attached, is an error that sends the loop to its sleep
\* with the run-state kept; the retry comes after exactly one sleep, issues no
\* list and no create call, attaches to the recorded instance, and ends the
\* invocation in success if it is answered with success or already-attached
\* again; it ends it as cancelled if the context was cancelled meanwhile, and
\* sleeps once more on any other answer.
C34_AlreadyAttachedAfterCreate ==
    [][/\ (/\ ppc = "attach" /\ ppc' # "attach" /\ pl.createdNow
            /\ pstat'.lastAttachErr \in {errAlreadyAttached, errAlreadyInUse})
           => (ppc' = "sleepEnter" /\ pl' = pl /\ hasCreatedInstance(pl'.state)
               /\ pstat'.result = "running")
       /\ (/\ ppc = "top" /\ ppc' # "top"
            /\ pstat.createOK = 1 /\ pstat.attachCalls = 1
            /\ pstat.lastAttachErr \in {errAlreadyAttached, errAlreadyInUse})
           => /\ pl.retries = pstat.listCalls
              /\ pstat'.listCalls = pstat.listCalls
              /\ pstat'.createCalls = pstat.createCalls
              /\ nCreated' = nCreated
              /\ IF cancelled
                 THEN pstat'.result = "cancelled" /\ pstat'.attachCalls = 1
                 ELSE /\ pstat'.attachCalls = 2
                      /\ pstat'.lastAttach = pl.state.instanceID
                      /\ pstat'.lastAttachErr \in
                            {<<>>, errAlreadyAttached, errAlreadyInUse}
                           => pstat'.result = "success"
                      /\ pstat'.lastAttachErr = errInternal
                           => (ppc' = "sleepEnter" /\ pstat'.result = "running")]_vars

\* C34 witness: the invocation has ended in success on its second attach
\* call, answered already-in-use like the first, after one list, one create
\* and one sleep.
C34_Witness ==
    /\ pstat.result = "success"
    /\ pstat.listCalls = 1 /\ pstat.createCalls = 1 /\ pstat.createOK = 1
    /\ pstat.attachCalls = 2 /\ pstat.attachFail = 2
    /\ pstat.lastAttachErr = errAlreadyInUse
    /\ pstat.runs = 1
    /\ nCreated = 1

\* C35: the step by which a provision invocation returns in success is an
\* attach call that was sent for the resolved instance (the listed match, or
\* the instance created in this invocation) and was answered with success or
\* with an already-attached error that the call accepts; an invocation that
\* returned in success has made such a call, and no list or create step
\* returns.
C35_SuccessOnlyAfterAttach ==
    [][/\ (pstat.result = "running" /\ pstat'.result = "success") =>
            /\ ppc \in {"top", "attach"}
            /\ ppc = "top" => hasCreatedInstance(pl.state)
            /\ pstat'.attachCalls = pstat.attachCalls + 1
            /\ pstat'.attachSent = pstat.attachSent + 1
            /\ pstat'.listCalls = pstat.listCalls
            /\ pstat'.createCalls = pstat.createCalls
            /\ pstat'.lastAttach # <<>>
            /\ pstat'.lastAttach =
                 IF pstat.createOK >= 1 THEN pl.state.instanceID
                 ELSE pl.selected.inst.ID
            /\ pstat.createOK = 0 =>
                 /\ pl.selected.found
                 /\ HasPrefix(pl.selected.inst.Label, labelPrefix)
                 /\ ~isTerminatingInstanceStatus(pl.selected.inst.Status)
            /\ \/ pstat'.lastAttachErr = <<>>
               \/ /\ pstat'.lastAttachErr \in {errAlreadyAttached, errAlreadyInUse}
                  /\ ppc = "attach" => ~pl.createdNow
       /\ (provisionRunning /\ ~provisionRunning') =>
            \/ pstat'.result = "success"
            \/ pstat'.result = "cancelled" /\ cancelled
       /\ pstat'.result = "success" => pstat'.attachSent >= 1]_vars

\* C35 witness: an invocation returned in success on its first attach call,
\* sent for the instance it had just created.
C35_Witness ==
    /\ pstat.result = "success"
    /\ pstat.createOK = 1
    /\ pstat.attachCalls = 1 /\ pstat.attachSent = 1
    /\ pstat.lastAttachErr = <<>>
    /\ pstat.lastAttach = NewID(1)
    /\ ~cancelled

C37_NoCreateInsideWindow ==
    pstat.lastCreate # -1 => ~isWithinCleanupWindow(pstat.lastCreate)

\* C37 amended: the trigger instant of every provision invocation lies outside
\* the cleanup window (it is 07:10 KST of a day, or the later instant at which
\* the daemon started that day), the invocation starts at or after it, and its
\* create calls are not bound to the window: a create call issued inside the
\* cleanup window comes from an invocation whose trigger instant is before
\* the opening of that window, one that has retried, or was fired late,
\* across midnight.
C37_CreateInsideWindowOnlyAcrossMidnight ==
    /\ [](provisionRunning =>
            /\ ~isWithinCleanupWindow(pNext)
            /\ pNext <= now
            /\ pNext - DateKST(LocalDay(pNext), 0, 0) >= createHourKST * 3600 + createMinuteKST * 60
            /\ pstat.lastCreate # -1 => pstat.lastCreate >= pNext)
    /\ [][(ppc = "create" /\ pstat'.createCalls = pstat.createCalls + 1) =>
            /\ pstat'.lastCreate = now
            /\ isWithinCleanupWindow(now) =>
                 /\ pNext < cleanupWindowBounds(now).start
                 /\ LocalDay(pNext) < LocalDay(now)]_vars

\* C37 witness: a create call was sent fifteen seconds into the cleanup
\* window, by the first retry of an invocation triggered before midnight,
\* while the cleanup loop waits for its 00:10 trigger.
C37_Witness ==
    /\ provisionRunning
    /\ pstat.createSent = 1
    /\ pstat.lastCreate # -1
    /\ isWithinCleanupWindow(pstat.lastCreate)
    /\ ~isWithinCleanupWindow(pNext)
    /\ nCreated = 1
    /\ cpc = "wait"

\* C38 as stated: two invocations of the cleanup reconciler never start on
\* the same KST calendar day.
C38_OneInvocationPerDay ==
    cstat.prevStart # -1 => LocalDay(cstat.prevStart) < LocalDay(cstat.lastStart)

\* C38 amended: an invocation of the cleanup reconciler starts inside the
\* window, at or after its trigger; after an invocation or a skip the next
\* trigger is strictly after the current instant and is the next 00:10 KST;
\* so an invocation that started at or after 00:10 KST of its day is the last
\* one to start that day, and two invocations start on the same day only if
\* the earlier one started before 00:10 KST of that day.
C38_NextTriggerIsNextScheduledMinute ==
    [][LET scheduled(t) == DateKST(LocalDay(t), cleanupHourKST, cleanupMinuteKST)
       IN  /\ (~cleanupRunning /\ cleanupRunning') =>
                /\ cNext <= now
                /\ isWithinCleanupWindow(now)
                /\ cstat'.lastStart = now /\ cstat'.prevStart = cstat.lastStart
                /\ (cstat.lastStart # -1 /\ LocalDay(cstat.lastStart) = LocalDay(now)) =>
                     (cstat.lastStart < scheduled(now) /\ scheduled(now) <= now)
           /\ (cpc # "start" /\ cNext' # cNext) =>
                /\ cNext' > now
                /\ cNext' - now <= SecondsPerDay
                /\ cNext' = scheduled(cNext')
                /\ ~cleanupRunning'
           /\ (cleanupRunning /\ ~cleanupRunning') => cNext' # cNext]_vars

\* C38 witness: the second invocation of a loop has started at 00:10 KST of
\* the day after the first.
C38_Witness ==
    /\ cleanupRunning
    /\ cstat.prevStart = DateKST(0, cleanupHourKST, cleanupMinuteKST)
    /\ cstat.lastStart = DateKST(1, cleanupHourKST, cleanupMinuteKST)
    /\ now = cstat.lastStart

\* C39: while a reconciler runs its retry delay lies between the configured
\* minimum and maximum, 15 s and 5 min; within an invocation the delay of the
\* provision reconciler changes only when a sleep that followed a failed
\* attempt ends, to min(2 * delay, 5 min), and the delay of the cleanup
\* reconciler changes only in that way (after a failed list call or a pass with
\* delete failures) or, when the settle sleep after a pass without delete
\* failures ends, back to the minimum.
C39_BackoffWithinBounds ==
    /\ [](cleanupRunning =>
            /\ defaultCleanupBackoffMin <= cl.backoff
            /\ cl.backoff <= defaultCleanupBackoffMax
            /\ 15 <= cl.backoff /\ cl.backoff <= 300)
    /\ [](provisionRunning =>
            /\ defaultProvisionBackoffMin <= pl.backoff
            /\ pl.backoff <= defaultProvisionBackoffMax
            /\ 15 <= pl.backoff /\ pl.backoff <= 300)
    /\ [][LET doubled(b, max) == IF 2 * b < max THEN 2 * b ELSE max
           IN  /\ (cleanupRunning /\ cleanupRunning' /\ cl'.backoff # cl.backoff) =>
                    /\ cpc = "sleeping" /\ cpc' = "top"
                    /\ now >= cl.deadline
                    /\ \/ /\ cl.after = "backoff"
                          /\ cstat.lastList = -1 \/ cl.deleteFailures > 0
                          /\ cl'.backoff = doubled(cl.backoff, defaultCleanupBackoffMax)
                       \/ /\ cl.after = "settle"
                          /\ cstat.lastList > 0 /\ cl.deleteFailures = 0
                          /\ cl'.backoff = defaultCleanupBackoffMin
               /\ (provisionRunning /\ provisionRunning' /\ pl'.backoff # pl.backoff) =>
                    /\ ppc = "sleeping" /\ ppc' = "top"
                    /\ now >= pl.deadline
                    /\ pl'.backoff = doubled(pl.backoff, defaultProvisionBackoffMax)
               /\ (~cleanupRunning /\ cleanupRunning') =>
                    cl'.backoff = defaultCleanupBackoffMin
               /\ (~provisionRunning /\ provisionRunning') =>
                    pl'.backoff = defaultProvisionBackoffMin]_vars

\* C39 witness: after five failed attempts the delay of a provision invocation
\* has reached the ceiling.
C39_Witness ==
    /\ provisionRunning
    /\ pl.retries = 5
    /\ pl.backoff = defaultProvisionBackoffMax
    /\ ppc = "top"
====
